---------------------------- MODULE Spec2Model ----------------------------
(***************************************************************************)
(* A model of pygama/pargen/energy_cal.py: the extrema finder              *)
(* (get_i_local_extrema), the polynomial matcher (poly_match), the peak    *)
(* re-locator (hpge_get_E_peaks), the staged fitter                        *)
(* (unbinned_staged_energy_fit) and the multi-peak orchestrator            *)
(* (hpge_fit_E_peaks).                                                     *)
(*                                                                         *)
(* Python indices are kept 0-based, as in the source; a Python array a is  *)
(* the TLA+ sequence whose element k+1 is a[k].  Floating-point values are *)
(* modelled by integers and exact rationals (numerator, denominator).     *)
(* The external services (histogram builder, shape functions, Minuit) are  *)
(* modelled by the outcomes they hand back, drawn from small sets.         *)
(***************************************************************************)
EXTENDS Integers, Sequences, FiniteSets, TLC

(***************************************************************************)
(* Bounds of the model.                                                    *)
(***************************************************************************)
MaxDataLen == 5
MaxSample == 3
MaxLen == 3
MaxX == 3
MaxY == 6
MaxRaw == 4
MaxE == 5
MaxRefs == 3
MaxPeaks == 2

(***************************************************************************)
(* Generic helpers.                                                        *)
(***************************************************************************)
Abs(v) == IF v < 0 THEN -v ELSE v

Range(s) == {s[k] : k \in DOMAIN s}

SeqsUpTo(S, n) == UNION {[1..m -> S] : m \in 0..n}

VARIABLES
    \* get_i_local_extrema
    data, delta, i, imax, imin, find_max, imaxes, imins, ex_pc, ex_from,
    \* poly_match
    xx, yy, deg, rtol, atol, ixtup, iytup, best_ixtup, best_iytup, n_close,
    gof, pars, pm_pc, pm_seen, pm_full, pm_hist,
    \* hpge_get_E_peaks
    detected, cal_pars, peaks_keV, Etol_keV, got_peak_locations,
    got_peak_energies, matched_energies, gp_pars, gp_pc,
    \* unbinned_staged_energy_fit
    sf_stack, sf_result,
    \* hpge_fit_E_peaks
    method, uncal_is_int, n_peaks, i_peak, fp_locals, fp_out, fp_alone,
    fp_last, fp_pc,
    \* hpge_E_calibration
    ec_in, ec_pc, ec_calls, ec_results, ec_valid, ec_ret,
    \* the variance clean-up of hpge_find_E_peaks and hpge_get_E_peaks
    vz_in, vz_hist, vz_bins, vz_var, vz_signal, vz_pc,
    \* hpge_fit_E_scale followed by hpge_fit_E_cal_func
    fs_in, fs_scale, fs_cal, fs_pc,
    \* the per-peak lists of hpge_E_calibration
    el_peaks_keV, el_in, el_range_keV, el_funcs, el_gof_funcs, el_got_locs,
    el_got_keV, el_fits, el_valid_pks, el_mus, el_ret, el_pc,
    \* the validity flag of an attempt of unbinned_staged_energy_fit
    sv_func, sv_m, sv_attempt, sv_flag, sv_pc

exVars == <<data, delta, i, imax, imin, find_max, imaxes, imins, ex_pc, ex_from>>

pmVars == <<xx, yy, deg, rtol, atol, ixtup, iytup, best_ixtup, best_iytup,
            n_close, gof, pars, pm_pc, pm_seen, pm_full, pm_hist>>

gpVars == <<detected, cal_pars, peaks_keV, Etol_keV, got_peak_locations,
            got_peak_energies, matched_energies, gp_pars, gp_pc>>

sfVars == <<sf_stack, sf_result>>

fpVars == <<method, uncal_is_int, n_peaks, i_peak, fp_locals, fp_out, fp_alone,
            fp_last, fp_pc>>

ecVars == <<ec_in, ec_pc, ec_calls, ec_results, ec_valid, ec_ret>>

vzVars == <<vz_in, vz_hist, vz_bins, vz_var, vz_signal, vz_pc>>

fsVars == <<fs_in, fs_scale, fs_cal, fs_pc>>

elVars == <<el_peaks_keV, el_in, el_range_keV, el_funcs, el_gof_funcs, el_got_locs,
    el_got_keV, el_fits, el_valid_pks, el_mus, el_ret, el_pc>>

svVars == <<sv_func, sv_m, sv_attempt, sv_flag, sv_pc>>

vars == <<exVars, pmVars, gpVars, sfVars, fpVars, ecVars, vzVars, fsVars, elVars, svVars>>

(***************************************************************************)
(* get_i_local_extrema(data, delta)                                        *)
(*                                                                         *)
(* ex_from is a history variable: the sample at which the search for the   *)
(* next extremum began, which is sample 0 or the sample at which the last  *)
(* extremum was appended.                                                  *)
(***************************************************************************)
\* data[k] of the source, k 0-based
Data(k) == data[k + 1]

Deltas == 0..2

ExInit ==
    /\ data \in SeqsUpTo(0..MaxSample, MaxDataLen)
    /\ delta \in Deltas
    /\ i = 0
    /\ imax = 0
    /\ imin = 0
    /\ find_max = TRUE
    /\ imaxes = <<>>
    /\ imins = <<>>
    /\ ex_pc = "start"
    /\ ex_from = 0

ExIdle ==
    /\ data = <<>>
    /\ delta = 0
    /\ i = 0
    /\ imax = 0
    /\ imin = 0
    /\ find_max = TRUE
    /\ imaxes = <<>>
    /\ imins = <<>>
    /\ ex_pc = "idle"
    /\ ex_from = 0

\* the sanity check on delta: a non-positive delta returns the empty lists
ExSanity ==
    /\ ex_pc = "start"
    /\ ex_pc' = IF delta <= 0 THEN "done" ELSE "loop"
    /\ UNCHANGED <<data, delta, i, imax, imin, find_max, imaxes, imins, ex_from>>

\* the running maximum after looking at sample k
ExUpdateMaxLast(k, m) == IF Data(k) >= Data(m) THEN k ELSE m

ExUpdateMaxForget(k, m) == IF Data(k) > Data(m) THEN k ELSE 0

ExUpdateMax(k, m) == IF Data(k) > Data(m) THEN k ELSE m

\* the running minimum after looking at sample k
ExUpdateMinLast(k, m) == IF Data(k) <= Data(m) THEN k ELSE m

ExUpdateMin(k, m) == IF Data(k) < Data(m) THEN k ELSE m

\* one iteration of the loop over the samples
ExStep ==
    /\ ex_pc = "loop"
    /\ i < Len(data)
    /\ LET mx == ExUpdateMax(i, imax)
           mn == ExUpdateMin(i, imin)
       IN  IF find_max
           THEN IF Data(i) < Data(mx) - delta
                THEN /\ imaxes' = Append(imaxes, mx)
                     /\ imin' = i
                     /\ imax' = mx
                     /\ find_max' = FALSE
                     /\ ex_from' = i
                     /\ UNCHANGED imins
                ELSE /\ imax' = mx
                     /\ imin' = mn
                     /\ UNCHANGED <<imaxes, imins, find_max, ex_from>>
           ELSE IF Data(i) > Data(mn) + delta
                THEN /\ imins' = Append(imins, mn)
                     /\ imax' = i
                     /\ imin' = mn
                     /\ find_max' = TRUE
                     /\ ex_from' = i
                     /\ UNCHANGED imaxes
                ELSE /\ imax' = mx
                     /\ imin' = mn
                     /\ UNCHANGED <<imaxes, imins, find_max, ex_from>>
    /\ i' = i + 1
    /\ UNCHANGED <<data, delta, ex_pc>>

\* the loop is over: the two lists are returned
ExReturn ==
    /\ ex_pc = "loop"
    /\ i = Len(data)
    /\ ex_pc' = "done"
    /\ UNCHANGED <<data, delta, i, imax, imin, find_max, imaxes, imins, ex_from>>

\* the other functions' variables stay as they are
ExRest == UNCHANGED <<pmVars, gpVars, sfVars, fpVars, ecVars, vzVars, fsVars, elVars, svVars>>

ExNext ==
    \/ ExSanity /\ ExRest
    \/ ExStep /\ ExRest
    \/ ExReturn /\ ExRest

(***************************************************************************)
(* poly_match(xx, yy, deg, rtol, atol)                                     *)
(*                                                                         *)
(* A fitted polynomial of degree -1, 0 or 1 is the rational line           *)
(* (a*x + b)/D, kept as the record [a, b, D] with D >= 0; D = 0 stands for *)
(* the NaN that numpy's 0/0 produces.  gof is the rational n/d, and d = 0  *)
(* stands for np.inf.                                                      *)
(*                                                                         *)
(* pm_seen and pm_full are history variables: the largest number of        *)
(* matches any candidate has had so far, and the length of the first       *)
(* non-empty candidate that matched on all its points (0 while there is    *)
(* none).  pm_hist is a history variable too: the candidates, as pairs     *)
(* <<ixtup, iytup>>, that have been through lines 1530-1562 since the      *)
(* window last got its length, in the order they were taken.               *)
(***************************************************************************)
None == "None"

\* None where index tuples are held, and None where fit coefficients are:
\* values of the kind of the others, which none of the others equals
NoTuple == <<-1>>

NoPars == [kind |-> "None"]

Degs == {-2, -1, 0, 1}

Rtols == {[n |-> 0, d |-> 1], [n |-> 1, d |-> 4]}

Atols == {0, 1}

\* sequences over S of length lo..hi, strictly increasing
AscSeqs(S, lo, hi) ==
    {s \in UNION {[1..m -> S] : m \in lo..hi} :
        \A k \in 1..(Len(s) - 1) : s[k] < s[k + 1]}

\* list(range(n)), as a tuple of 0-based indices
IdxRange(n) == [k \in 1..n |-> k - 1]

\* a[tup], numpy's indexing of an array by an index tuple
Take(a, tup) == [k \in 1..Len(tup) |-> a[tup[k] + 1]]

RECURSIVE SumSeq(_)
SumSeq(s) == IF s = <<>> THEN 0 ELSE s[1] + SumSeq(Tail(s))

Prod(s, t) == [k \in 1..Len(s) |-> s[k] * t[k]]

Inf == [n |-> 1, d |-> 0]

\* g < h on gof values; np.inf is below nothing, and everything finite is below it
GofLess(g, h) ==
    IF g.d = 0 THEN FALSE
    ELSE IF h.d = 0 THEN TRUE
    ELSE g.n * h.d < h.n * g.d

\* req_ylen
ReqYLen(d) == IF d + 2 > 2 THEN d + 2 ELSE 2

\* maxoverlap
MinLen(a, b) == IF Len(a) < Len(b) THEN Len(a) ELSE Len(b)

\* pars_i for the window (xx_i, yy_i): the shift, the scale, or np.polyfit's
\* least-squares line (for a single point, its minimum-norm solution, which
\* interpolates the point)
PMFitShiftSign(xx_i, yy_i, d) ==
    LET n == Len(xx_i)
        Sx == SumSeq(xx_i)
        Sy == SumSeq(yy_i)
        Sxx == SumSeq(Prod(xx_i, xx_i))
        Sxy == SumSeq(Prod(xx_i, yy_i))
    IN  IF d = -1 THEN [a |-> n, b |-> Sx - Sy, D |-> n]
        ELSE IF d = 0 THEN [a |-> Sxy, b |-> 0, D |-> Sxx]
        ELSE IF n = 1 THEN [a |-> yy_i[1], b |-> yy_i[1] * xx_i[1], D |-> 2 * xx_i[1]]
        ELSE [a |-> n * Sxy - Sx * Sy, b |-> Sy * Sxx - Sx * Sxy, D |-> n * Sxx - Sx * Sx]

PMFit(xx_i, yy_i, d) ==
    LET n == Len(xx_i)
        Sx == SumSeq(xx_i)
        Sy == SumSeq(yy_i)
        Sxx == SumSeq(Prod(xx_i, xx_i))
        Sxy == SumSeq(Prod(xx_i, yy_i))
    IN  IF d = -1 THEN [a |-> n, b |-> Sy - Sx, D |-> n]
        ELSE IF d = 0 THEN [a |-> Sxy, b |-> 0, D |-> Sxx]
        ELSE IF n = 1 THEN [a |-> yy_i[1], b |-> yy_i[1] * xx_i[1], D |-> 2 * xx_i[1]]
        ELSE [a |-> n * Sxy - Sx * Sy, b |-> Sy * Sxx - Sx * Sxy, D |-> n * Sxx - Sx * Sx]

\* D * polxx[k] - D * yy_i[k]
PMResid(p, x, y) == p.a * x + p.b - p.D * y

\* np.isclose(polxx, yy_i, rtol, atol), element by element: |polxx - y| <= atol + rtol*|y|
PMIsClose(p, x, y, rt, at) ==
    /\ p.D > 0
    /\ Abs(PMResid(p, x, y)) * rt.d <= p.D * (at * rt.d + rt.n * Abs(y))

\* the positions of the window that match
PMMatches(p, xx_i, yy_i, rt, at) ==
    {k \in 1..Len(xx_i) : PMIsClose(p, xx_i[k], yy_i[k], rt, at)}

\* gof_i: the squared residuals summed over the matches only
PMGof(p, xx_i, yy_i, m) ==
    [n |-> SumSeq([k \in 1..Len(xx_i) |->
                     IF k \in m THEN PMResid(p, xx_i[k], yy_i[k]) * PMResid(p, xx_i[k], yy_i[k])
                     ELSE 0]),
     d |-> IF m = {} THEN 1 ELSE p.D * p.D]

\* the index ii of the tuple that is incremented next
RECURSIVE PMScan(_, _)
PMScan(tup, ii) ==
    IF ii < Len(tup) - 1
    THEN IF tup[ii + 1] < tup[ii + 2] - 1 THEN ii ELSE PMScan(tup, ii + 1)
    ELSE ii

\* the tuple is exhausted: ii is its last index and that index is maxed out
PMMaxedOut(tup, len) ==
    LET ii == PMScan(tup, 0)
    IN  ii = Len(tup) - 1 /\ tup[ii + 1] = len - 1

\* the tuple is left as it is
PMAdvanceStuck(tup) == tup

\* tup[0] += 1, whatever ii is
PMAdvanceFirst(tup) ==
    [k \in 1..Len(tup) |-> IF k = 1 THEN tup[k] + 1 ELSE tup[k]]

\* tup[ii] += 1; tup[0:ii] = list(range(ii))
PMAdvance(tup) ==
    LET ii == PMScan(tup, 0)
    IN  [k \in 1..Len(tup) |->
            IF k - 1 < ii THEN k - 1
            ELSE IF k - 1 = ii THEN tup[k] + 1
            ELSE tup[k]]

\* the candidate replaces the best so far when it is as good
PMBetterLast(n_close_i, gof_i, nc, g) ==
    n_close_i >= nc /\ (n_close_i > nc \/ (n_close_i = nc /\ ~GofLess(g, gof_i)))

\* the candidate replaces the best so far on its gof alone
PMBetterGofOnly(n_close_i, gof_i, nc, g) == GofLess(gof_i, g)

\* the candidate replaces the best so far
PMBetter(n_close_i, gof_i, nc, g) ==
    n_close_i >= nc /\ (n_close_i > nc \/ (n_close_i = nc /\ GofLess(gof_i, g)))

PMInitOn(x, y, d, rt, at, pc) ==
    /\ xx = x
    /\ yy = y
    /\ deg = d
    /\ rtol = rt
    /\ atol = at
    /\ ixtup = <<>>
    /\ iytup = <<>>
    /\ best_ixtup = NoTuple
    /\ best_iytup = NoTuple
    /\ n_close = 0
    /\ gof = Inf
    /\ pars = NoPars
    /\ pm_pc = pc
    /\ pm_seen = 0
    /\ pm_full = 0
    /\ pm_hist = <<>>

PMInit ==
    \E x \in AscSeqs(1..MaxX, 0, MaxLen), y \in AscSeqs(0..MaxY, 0, MaxLen),
       d \in Degs, rt \in Rtols, at \in Atols :
        PMInitOn(x, y, d, rt, at, "start")

PMIdle == PMInitOn(<<>>, <<>>, 0, [n |-> 0, d |-> 1], 0, "idle")

\* the coefficients of the polynomials of degree d whose images poly_match is run on:
\* x + c0 for d = -1, c1*x for d = 0, c1*x + c0 for d = 1
Coefs(d) ==
    IF d = -1 THEN {<<1, c0>> : c0 \in -2..2}
    ELSE IF d = 0 THEN {<<c1, 0>> : c1 \in -2..2}
    ELSE {<<c1, c0>> : c1 \in -2..2, c0 \in -2..2}

PolyImage(c, x) == [k \in 1..Len(x) |-> c[1] * x[k] + c[2]]

\* poly_match called on (xx, f(xx)) for a polynomial f of degree deg
PMImageInit ==
    \E d \in {-1, 0, 1}, rt \in Rtols, at \in Atols :
      \E x \in AscSeqs(-1..MaxX, ReqYLen(d), MaxLen + 1) :
        \E c \in Coefs(d) :
            PMInitOn(x, PolyImage(c, x), d, rt, at, "start")

frozenPM == <<xx, yy, deg, rtol, atol>>

\* input handling and the first index tuples
PMStart ==
    /\ pm_pc = "start"
    /\ IF deg < -1 \/ Len(yy) < ReqYLen(deg)
       THEN /\ pm_pc' = "error"
            /\ UNCHANGED <<ixtup, iytup>>
       ELSE /\ pm_pc' = "loop"
            /\ ixtup' = IdxRange(MinLen(xx, yy))
            /\ iytup' = IdxRange(MinLen(xx, yy))
    /\ UNCHANGED <<frozenPM, best_ixtup, best_iytup, n_close, gof, pars, pm_seen, pm_full,
                   pm_hist>>

\* one pass of the while loop: fit the candidate, keep it if it is the best,
\* then advance ixtup, or iytup, or stop, or shorten the window
PMIter ==
    /\ pm_pc = "loop"
    /\ IF Len(ixtup) = 0 /\ deg >= 1
       THEN \* np.polyfit refuses an empty vector
            /\ pm_pc' = "TypeError"
            /\ UNCHANGED <<ixtup, iytup, best_ixtup, best_iytup, n_close, gof, pars, pm_seen,
                           pm_full, pm_hist>>
       ELSE
       LET xx_i == Take(xx, ixtup)
           yy_i == Take(yy, iytup)
           pars_i == PMFit(xx_i, yy_i, deg)
           matches == PMMatches(pars_i, xx_i, yy_i, rtol, atol)
           n_close_i == Cardinality(matches)
           gof_i == PMGof(pars_i, xx_i, yy_i, matches)
           better == PMBetter(n_close_i, gof_i, n_close, gof)
           nc == IF better THEN n_close_i ELSE n_close
           g == IF better THEN gof_i ELSE gof
           p == IF better THEN pars_i ELSE pars
           bx == IF better THEN ixtup ELSE best_ixtup
           by == IF better THEN iytup ELSE best_iytup
           new_len == Len(iytup) - 1
       IN  /\ pm_seen' = IF n_close_i > pm_seen THEN n_close_i ELSE pm_seen
           /\ pm_full' = IF pm_full = 0 /\ n_close_i = Len(iytup) THEN n_close_i ELSE pm_full
           /\ pars' = p
           /\ IF Len(ixtup) = 0
              THEN \* ixtup[0] += 1 on an empty tuple
                   /\ pm_pc' = "IndexError"
                   /\ n_close' = nc /\ gof' = g /\ best_ixtup' = bx /\ best_iytup' = by
                   /\ pm_hist' = Append(pm_hist, <<ixtup, iytup>>)
                   /\ UNCHANGED <<ixtup, iytup>>
              ELSE IF ~PMMaxedOut(ixtup, Len(xx))
              THEN /\ ixtup' = PMAdvance(ixtup)
                   /\ n_close' = nc /\ gof' = g /\ best_ixtup' = bx /\ best_iytup' = by
                   /\ pm_hist' = Append(pm_hist, <<ixtup, iytup>>)
                   /\ UNCHANGED <<iytup, pm_pc>>
              ELSE IF ~PMMaxedOut(iytup, Len(yy))
              THEN /\ iytup' = PMAdvance(iytup)
                   /\ ixtup' = IdxRange(Len(iytup))
                   /\ n_close' = nc /\ gof' = g /\ best_ixtup' = bx /\ best_iytup' = by
                   /\ pm_hist' = Append(pm_hist, <<ixtup, iytup>>)
                   /\ UNCHANGED pm_pc
              ELSE IF nc = Len(iytup) \/ new_len < ReqYLen(deg)
              THEN /\ pm_pc' = "done"
                   /\ n_close' = nc /\ gof' = g /\ best_ixtup' = bx /\ best_iytup' = by
                   /\ pm_hist' = Append(pm_hist, <<ixtup, iytup>>)
                   /\ UNCHANGED <<ixtup, iytup>>
              ELSE /\ ixtup' = IdxRange(new_len)
                   /\ iytup' = IdxRange(new_len)
                   /\ best_ixtup' = NoTuple
                   /\ best_iytup' = NoTuple
                   /\ n_close' = 0
                   /\ gof' = Inf
                   /\ pm_hist' = <<>>
                   /\ UNCHANGED pm_pc
    /\ UNCHANGED frozenPM

\* the other functions' variables stay as they are
PMRest == UNCHANGED <<exVars, gpVars, sfVars, fpVars, ecVars, vzVars, fsVars, elVars, svVars>>

PMNext ==
    \/ PMStart /\ PMRest
    \/ PMIter /\ PMRest

(***************************************************************************)
(* hpge_get_E_peaks(hist, bins, var, cal_pars, peaks_keV, n_sigma,         *)
(* Etol_keV, var_zero)                                                     *)
(*                                                                         *)
(* detected is bins[imaxes], the raw positions of the maxima found in the  *)
(* histogram, in increasing order.  gp_pars is the refitted polynomial,    *)
(* kept as the degree it was fitted with and the number of coefficients    *)
(* np.polyfit hands back for that degree.                                  *)
(***************************************************************************)
\* pgf.poly(x, pars): coefficients in the polyfit convention, highest degree first
RECURSIVE PolyVal(_, _)
PolyVal(x, c) ==
    IF c = <<>> THEN 0
    ELSE c[Len(c)] + x * PolyVal(x, SubSeq(c, 1, Len(c) - 1))

CalPars == {<<1, 0>>, <<2, 0>>, <<2, -1>>, <<-1, 5, 0>>}

Etols == {1, 2, 3}

\* sequences over S of length lo..hi without repetition
InjSeqs(S, lo, hi) ==
    {s \in UNION {[1..m -> S] : m \in lo..hi} :
        \A j, k \in 1..Len(s) : j # k => s[j] # s[k]}

\* abs(peaks_keV - e).min()
GPMinDist(refs, e) ==
    CHOOSE d \in {Abs(refs[k] - e) : k \in 1..Len(refs)} :
        \A k \in 1..Len(refs) : d <= Abs(refs[k] - e)

\* np.argmin(abs(peaks_keV - e)): the first index of the minimum (1-based here)
GPArgMin(refs, e) ==
    CHOOSE k \in 1..Len(refs) :
        /\ Abs(refs[k] - e) = GPMinDist(refs, e)
        /\ \A j \in 1..(k - 1) : Abs(refs[j] - e) # GPMinDist(refs, e)

\* a, whatever the mask is
GPFilterAll(a, keep, k) == IF k > Len(a) THEN <<>> ELSE SubSeq(a, k, Len(a))

\* a[mask]: the elements of a whose index satisfies keep, in order
RECURSIVE GPFilter(_, _, _)
GPFilter(a, keep, k) ==
    IF k > Len(a) THEN <<>>
    ELSE (IF keep[k] THEN <<a[k]>> ELSE <<>>) \o GPFilter(a, keep, k + 1)

\* np.delete(a, 0) whatever k is
GPDeleteFirst(a, k) == SubSeq(a, 2, Len(a))

\* np.delete(a, k), k 0-based
GPDelete(a, k) == SubSeq(a, 1, k) \o SubSeq(a, k + 2, Len(a))

\* list(matched_energies).count(x)
GPCount(m, x) == Cardinality({k \in 1..Len(m) : m[k] = x})

\* the condition that ends the while loop: every matched energy occurs once
GPAllUniqueAdjacent(m) == \A k \in 1..(Len(m) - 1) : m[k] # m[k + 1]

GPAllUnique(m) == \A k \in 1..Len(m) : GPCount(m, m[k]) = 1

\* the index i at which the for loop stops: the first i with
\* matched_energies[i + 1] == matched_energies[i], or the last index, where
\* matched_energies[i + 1] is out of range
RECURSIVE GPFirstDup(_, _)
GPFirstDup(m, k) ==
    IF k + 1 >= Len(m) THEN k
    ELSE IF m[k + 2] = m[k + 1] THEN k
    ELSE GPFirstDup(m, k + 1)

\* pars before line 190 has run
GPNoPars == [kind |-> "unset"]

\* the degree handed to np.polyfit
GPRefitDegSame(cp) == Len(cp) - 1

GPRefitDeg(cp) == Len(cp)

\* np.polyfit(x, y, d): an empty x is refused; otherwise d + 1 coefficients
\* come back, whatever the number of points
GPPolyfit(x, y, d) ==
    IF Len(x) = 0 THEN [kind |-> "TypeError"]
    ELSE [kind |-> "poly", deg |-> d, len |-> d + 1]

GPInit ==
    /\ detected \in AscSeqs(1..MaxRaw, 0, MaxRaw)
    /\ cal_pars \in CalPars
    /\ peaks_keV \in InjSeqs(1..MaxE, 1, MaxRefs)
    /\ Etol_keV \in Etols
    /\ got_peak_locations = <<>>
    /\ got_peak_energies = <<>>
    /\ matched_energies = <<>>
    /\ gp_pars = GPNoPars
    /\ gp_pc = "start"

GPIdle ==
    /\ detected = <<>>
    /\ cal_pars = <<>>
    /\ peaks_keV = <<>>
    /\ Etol_keV = 0
    /\ got_peak_locations = <<>>
    /\ got_peak_energies = <<>>
    /\ matched_energies = <<>>
    /\ gp_pars = GPNoPars
    /\ gp_pc = "idle"

frozenGP == <<detected, cal_pars, peaks_keV, Etol_keV>>

\* keep the maxima that coincide with an expected peak and match each to the
\* nearest expected energy
GPMatch ==
    /\ gp_pc = "start"
    /\ LET test_peaks_keV == [k \in 1..Len(detected) |-> PolyVal(detected[k], cal_pars)]
           imatch == [k \in 1..Len(detected) |->
                         GPMinDist(peaks_keV, test_peaks_keV[k]) < Etol_keV]
           locs == GPFilter(detected, imatch, 1)
           enes == GPFilter(test_peaks_keV, imatch, 1)
       IN  /\ got_peak_locations' = locs
           /\ got_peak_energies' = enes
           /\ matched_energies' =
                 [k \in 1..Len(enes) |-> peaks_keV[GPArgMin(peaks_keV, enes[k])]]
    /\ gp_pc' = "while"
    /\ UNCHANGED <<frozenGP, gp_pars>>

\* one pass of the while loop: the for loop up to its break
GPResolve ==
    /\ gp_pc = "while"
    /\ ~GPAllUnique(matched_energies)
    /\ LET k == GPFirstDup(matched_energies, 0)
       IN  IF k + 1 >= Len(matched_energies)
           THEN \* matched_energies[i + 1] with i the last index
                /\ gp_pc' = "IndexError"
                /\ UNCHANGED <<got_peak_locations, got_peak_energies, matched_energies>>
           ELSE /\ IF Abs(got_peak_energies[k + 2] - matched_energies[k + 1])
                        < Abs(got_peak_energies[k + 1] - matched_energies[k + 1])
                   THEN /\ got_peak_locations' = GPDelete(got_peak_locations, k)
                        /\ got_peak_energies' = GPDelete(got_peak_energies, k)
                   ELSE /\ got_peak_locations' = GPDelete(got_peak_locations, k + 1)
                        /\ got_peak_energies' = GPDelete(got_peak_energies, k + 1)
                /\ matched_energies' = GPDelete(matched_energies, k)
                /\ UNCHANGED gp_pc
    /\ UNCHANGED <<frozenGP, gp_pars>>

\* the loop is over: the calibration curve is refitted and the lists returned
GPReturn ==
    /\ gp_pc = "while"
    /\ GPAllUnique(matched_energies)
    /\ LET fit == GPPolyfit(got_peak_locations, matched_energies, GPRefitDeg(cal_pars))
       IN  IF fit.kind = "TypeError"
           THEN gp_pc' = "TypeError" /\ UNCHANGED gp_pars
           ELSE gp_pc' = "done" /\ gp_pars' = fit
    /\ UNCHANGED <<frozenGP, got_peak_locations, got_peak_energies, matched_energies>>

\* the other functions' variables stay as they are
GPRest == UNCHANGED <<exVars, pmVars, sfVars, fpVars, ecVars, vzVars, fsVars, elVars, svVars>>

GPNext ==
    \/ GPMatch /\ GPRest
    \/ GPResolve /\ GPRest
    \/ GPReturn /\ GPRest

(***************************************************************************)
(* unbinned_staged_energy_fit(energy, func, ..., guess, ...,               *)
(* allow_tail_drop, ...)                                                   *)
(*                                                                         *)
(* sf_stack is the stack of the calls in progress (the function calls      *)
(* itself for the tail-free fit); each frame holds the call's arguments,   *)
(* its position and its locals.  sf_result is what the outermost call      *)
(* hands back: a returned fit or a raised exception.  A Minuit object is   *)
(* the record of what the optimizer reports: valid, the class of the free  *)
(* parameters' errors, the goodness-of-fit statistic cs[0] (in hundredths) *)
(* and the summed relative errors.                                         *)
(***************************************************************************)
Funcs == {"extended_radford_pdf", "radford_pdf", "extended_gauss_step_pdf"}

Guesses == {None, "guess"}

ErrClasses == {"ok", "has_nan", "all_zero"}

CsVals == {100, 104, 110}

\* the summed relative errors: <<v>>, or <<>> for NaN
FracVals == {<<1>>, <<2>>, <<>>}

\* htail_lt_err: the fitted tail fraction is below its own uncertainty
Minuits ==
    [valid : BOOLEAN, errors : ErrClasses, cs : CsVals, frac : FracVals,
     htail_lt_err : BOOLEAN]

\* a Minuit object that does not exist yet
NoMinuit ==
    [valid |-> FALSE, errors |-> "none", cs |-> 0, frac |-> <<>>, htail_lt_err |-> FALSE]

NoFit == [kind |-> "none"]

\* the attributes a Minuit object has
MinuitAttrs == {"values", "errors", "covariance", "valid", "fixed", "limits", "tol"}

Raise(exc, line) == [kind |-> "raise", exc |-> exc, line |-> line]

Return(fit) == [kind |-> "return", fit |-> fit]

NoResult == [kind |-> "none"]

SFTailed(f) == f = "extended_radford_pdf" \/ f = "radford_pdf"

\* valid1, valid2: the optimizer converged, no free error is NaN, not all are zero
SFValid(m) == m.valid /\ m.errors # "has_nan" /\ m.errors # "all_zero"

\* obj.name on a Minuit object
SFGetAttr(obj, name) ==
    IF name \in MinuitAttrs THEN <<obj, name>> ELSE <<"AttributeError">>

\* the tuple (values, errors, covariance, cs, func, gof_func, mask, valid)
SFTuple(vals, errs, cov, m, v) ==
    IF <<"AttributeError">> \in {vals, errs, cov} THEN [kind |-> "AttributeError"]
    ELSE [kind |-> "fit", values |-> vals, errors |-> errs, covariance |-> cov,
          cs |-> m.cs, htail_lt_err |-> m.htail_lt_err, valid |-> v]

\* fit1: built from m
SFFit1(m) ==
    SFTuple(SFGetAttr("m", "values"), SFGetAttr("m", "errors"),
            SFGetAttr("m", "covariance"), m, SFValid(m))

\* fit2: built from m.values2, m.errors2, m.covariance2 and cs2, valid2
SFFit2(m, m2) ==
    SFTuple(SFGetAttr("m", "values2"), SFGetAttr("m", "errors2"),
            SFGetAttr("m", "covariance2"), m2, SFValid(m2))

\* a < b on summed relative errors; a NaN compares false
SFFracLess(a, b) == a # <<>> /\ b # <<>> /\ a[1] < b[1]

\* the if/elif chain that chooses between fit1 and fit2
SFArbitrate(fit1, fit2, m, m2) ==
    IF ~SFValid(m) /\ ~SFValid(m2)
    THEN \* the extra simplex runs, then `if verbose:` names an undefined variable
         Raise("NameError", 710)
    ELSE IF ~SFValid(m2) THEN Return(fit1)
    ELSE IF ~SFValid(m) THEN Return(fit2)
    ELSE IF m.cs * 105 < m2.cs * 100 THEN Return(fit1)
    ELSE IF m2.cs * 105 < m.cs * 100 THEN Return(fit2)
    ELSE IF SFFracLess(m.frac, m2.frac) THEN Return(fit1)
    ELSE IF SFFracLess(m2.frac, m.frac) THEN Return(fit2)
    ELSE Raise("RuntimeError", 761)

\* from the construction of fit2 to the end of the if/elif chain
SFSelectSwallow(m, m2) ==
    LET fit1 == SFFit1(m)
        fit2 == SFFit2(m, m2)
        r == IF fit2.kind = "AttributeError" THEN Raise("AttributeError", 671)
             ELSE SFArbitrate(fit1, fit2, m, m2)
    IN  IF r.kind = "raise" THEN Return(fit1) ELSE r

SFSelect(m, m2) ==
    LET fit1 == SFFit1(m)
        fit2 == SFFit2(m, m2)
    IN  IF fit2.kind = "AttributeError" THEN Raise("AttributeError", 671)
        ELSE SFArbitrate(fit1, fit2, m, m2)

\* the tail-drop decision: chi2 (and then pars, errs) are names the module
\* never defines
SFTailDrop(r, f, drop, fit_no_tail) ==
    IF r.kind = "raise" THEN r
    ELSE IF SFTailed(f) /\ drop THEN Raise("NameError", 764)
    ELSE r

SFFrame(f, g, drop) ==
    [func |-> f, guess |-> g, allow_tail_drop |-> drop, pc |-> "guess",
     x0 |-> None, m |-> NoMinuit, m2 |-> NoMinuit, fit_no_tail |-> NoFit]

SFInit ==
    /\ \E f \in Funcs, g \in Guesses, drop \in BOOLEAN :
          sf_stack = <<SFFrame(f, g, drop)>>
    /\ sf_result = NoResult

SFIdle ==
    /\ sf_stack = <<>>
    /\ sf_result = NoResult

SFTop == sf_stack[Len(sf_stack)]

SFRunning == sf_stack # <<>> /\ sf_result.kind = "none"

\* the top frame with some fields changed
SFSetTop(f) == [sf_stack EXCEPT ![Len(sf_stack)] = f]

\* an exception leaves every call in progress; the outermost frame is kept
\* as the record of the call
SFPropagate(r) ==
    /\ sf_result' = r
    /\ sf_stack' = <<[sf_stack[1] EXCEPT !.pc = "raised"]>>

\* the initial guess x0, from the guess supplied or from guess_func
SFGuess ==
    /\ SFRunning
    /\ SFTop.pc = "guess"
    /\ IF SFTop.guess = None /\ SFTop.func = "extended_radford_pdf"
       THEN \* `if verbose:` names an undefined variable
            SFPropagate(Raise("NameError", 574))
       ELSE \/ \E x \in (IF SFTop.guess = None THEN {"x1"} ELSE {"guess", "x1"}) :
                  /\ sf_stack' = SFSetTop([SFTop EXCEPT !.x0 = x, !.pc = "cost"])
                  /\ UNCHANGED sf_result
            \/ \* guess_func or goodness_of_fit raises
               SFPropagate(Raise("Exception", 559))

\* a tailed model with tail drop allowed: the tail-free fit is made first
SFFitNoTail ==
    /\ SFRunning
    /\ SFTop.pc = "cost"
    /\ SFTailed(SFTop.func) /\ SFTop.allow_tail_drop
    /\ sf_stack' = Append(SFSetTop([SFTop EXCEPT !.pc = "wait_no_tail"]),
                          SFFrame("extended_gauss_step_pdf", None, TRUE))
    /\ UNCHANGED sf_result

\* otherwise the cost function is the plain likelihood
SFPlainCost ==
    /\ SFRunning
    /\ SFTop.pc = "cost"
    /\ ~(SFTailed(SFTop.func) /\ SFTop.allow_tail_drop)
    /\ sf_stack' = SFSetTop([SFTop EXCEPT !.pc = "attempt1"])
    /\ UNCHANGED sf_result

\* the attempt without simplex
SFAttempt1 ==
    /\ SFRunning
    /\ SFTop.pc = "attempt1"
    /\ \E m \in Minuits :
          sf_stack' = SFSetTop([SFTop EXCEPT !.m = m, !.pc = "attempt2"])
    /\ UNCHANGED sf_result

\* the attempt with simplex
SFAttempt2 ==
    /\ SFRunning
    /\ SFTop.pc = "attempt2"
    /\ \E m2 \in Minuits :
          sf_stack' = SFSetTop([SFTop EXCEPT !.m2 = m2, !.pc = "select"])
    /\ UNCHANGED sf_result

\* fit1 and fit2 are built, one is chosen, the tail may be dropped, and the
\* call returns: to its caller as fit_no_tail, or as the result
SFFinish ==
    /\ SFRunning
    /\ SFTop.pc = "select"
    /\ LET r == SFTailDrop(SFSelect(SFTop.m, SFTop.m2), SFTop.func,
                           SFTop.allow_tail_drop, SFTop.fit_no_tail)
       IN  IF r.kind = "raise" THEN SFPropagate(r)
           ELSE IF Len(sf_stack) > 1
           THEN /\ sf_stack' = [k \in 1..(Len(sf_stack) - 1) |->
                                   IF k = Len(sf_stack) - 1
                                   THEN [sf_stack[k] EXCEPT !.fit_no_tail = r.fit,
                                                            !.pc = "attempt1"]
                                   ELSE sf_stack[k]]
                /\ UNCHANGED sf_result
           ELSE /\ sf_result' = r
                /\ sf_stack' = SFSetTop([SFTop EXCEPT !.pc = "returned"])

\* the other functions' variables stay as they are
SFRest == UNCHANGED <<exVars, pmVars, gpVars, fpVars, ecVars, vzVars, fsVars, elVars, svVars>>

SFNext ==
    \/ SFGuess /\ SFRest
    \/ SFFitNoTail /\ SFRest
    \/ SFPlainCost /\ SFRest
    \/ SFAttempt1 /\ SFRest
    \/ SFAttempt2 /\ SFRest
    \/ SFFinish /\ SFRest

(***************************************************************************)
(* hpge_fit_E_peaks(E_uncal, mode_guesses, wwidths, n_bins, funcs, method, *)
(* ..., allowed_p_val, uncal_is_int, ...)                                  *)
(*                                                                         *)
(* One step of the model is one pass of the loop over the peaks.  A peak   *)
(* is its inputs (mode guess, window width, number of bins) and what the   *)
(* external services hand back while it is processed: the call that        *)
(* raises, if one does, and otherwise the fit's covariance sum, relative   *)
(* errors, total event count and p-value.  fp_locals holds the function's  *)
(* local variables that outlive a pass (bins), fp_out the output arrays,   *)
(* entry by entry.  fp_alone[k] records what a call with peak k as its     *)
(* only peak hands back for it.                                            *)
(***************************************************************************)
Methods == {"unbinned", "binned"}

\* mode_guesses[i], wwidths[i], n_bins
PeakInputs == {[mode |-> 10, wwidth |-> 4, n_bins |-> 2],
               [mode |-> 20, wwidth |-> 6, n_bins |-> 2]}

\* the call that raises while the peak is processed
FailPoints == {"none", "better_int_binning", "get_hist", "par_guess", "fit_binned",
               "goodness_of_fit", "nan_pars", "get_total_events"}

CovSums == {"finite", "zero", "+inf", "-inf", "nan"}

RelErrs == {"ok", "low", "nan"}

Events == {"ok", "off"}

PVals == {"ok", "low", "nan"}

Outcomes ==
    [fail : FailPoints \ {"none"}, covsum : {"finite"}, relerr : {"ok"},
     events : {"ok"}, pval : {"ok"}]
    \cup [fail : {"none"}, covsum : CovSums, relerr : RelErrs, events : Events,
          pval : PVals]

Unbound == [bound |-> FALSE]

\* the if/elif chain that sets valid_pks[i_peak]
FPValid(oc, valid_fit) ==
    IF oc.covsum \in {"+inf", "zero", "nan"} THEN FALSE
    ELSE IF ~valid_fit THEN FALSE
    ELSE IF oc.relerr \in {"low", "nan"} THEN FALSE
    ELSE IF oc.events = "off" THEN FALSE
    ELSE IF oc.pval \in {"low", "nan"} THEN FALSE
    ELSE TRUE

\* Euc_min, Euc_max (and whether better_int_binning adjusted them)
FPRange(inp, snapped) ==
    [lo |-> inp.mode - inp.wwidth \div 2, hi |-> inp.mode + inp.wwidth \div 2,
     snapped |-> snapped]

\* the try block of one pass: what it leaves in bins, and either the
\* exception caught or the fit's entry
FPTry(loc, inp, oc, meth, is_int) ==
    LET rng0 == FPRange(inp, FALSE)
        rng == FPRange(inp, is_int)
        newbins == [bound |-> TRUE, lo |-> rng.lo, hi |-> rng.hi, n |-> inp.n_bins]
    IN  IF is_int /\ oc.fail = "better_int_binning"
        THEN [caught |-> TRUE, bins |-> loc.bins, range |-> rng0, exc |-> "better_int_binning"]
        ELSE IF oc.fail = "get_hist"
        THEN [caught |-> TRUE, bins |-> loc.bins, range |-> rng, exc |-> "get_hist"]
        ELSE IF meth = "unbinned"
        THEN \* the call of the staged fitter names `energy`, an undefined variable
             [caught |-> TRUE, bins |-> newbins, range |-> rng, exc |-> "NameError"]
        ELSE IF oc.fail \notin {"none", "better_int_binning"}
        THEN [caught |-> TRUE, bins |-> newbins, range |-> rng, exc |-> oc.fail]
        ELSE [caught |-> FALSE, bins |-> newbins, range |-> rng,
              valid |-> FPValid(oc, TRUE), p_val |-> oc.pval]

\* one pass of the loop: the try block, the except clause, and the entries
\* written after them
FPPass(loc, inp, oc, meth, is_int) ==
    LET t == FPTry(loc, inp, oc, meth, is_int)
    IN  IF ~t.bins.bound
        THEN \* binw_1 = (bins[-1] - bins[0]) / ...: bins was never assigned
             [raised |-> TRUE, locals |-> [bins |-> t.bins]]
        ELSE [raised |-> FALSE,
              locals |-> [bins |-> t.bins],
              entry |-> [pars |-> IF t.caught THEN "nan" ELSE "fit",
                         binw |-> <<t.bins.hi - t.bins.lo, t.bins.n>>,
                         range |-> t.range,
                         p_val |-> IF t.caught THEN "0" ELSE t.p_val,
                         valid |-> IF t.caught THEN FALSE ELSE t.valid]]

\* np.zeros: the entry of an output array before it is written
ZeroEntry == [pars |-> "0", binw |-> <<0, 1>>, range |-> "0", p_val |-> "0", valid |-> FALSE]

NoOutcome ==
    [fail |-> "none", covsum |-> "none", relerr |-> "none", events |-> "none",
     pval |-> "none"]

FPInit ==
    /\ method \in Methods
    /\ uncal_is_int \in BOOLEAN
    /\ n_peaks \in 1..MaxPeaks
    /\ i_peak = 0
    /\ fp_locals = [bins |-> Unbound]
    /\ fp_out = [k \in 1..n_peaks |-> ZeroEntry]
    /\ fp_alone = <<>>
    /\ fp_last = [inp |-> [mode |-> 0, wwidth |-> 0, n_bins |-> 0], oc |-> NoOutcome]
    /\ fp_pc = "loop"

FPIdle ==
    /\ method = "unbinned"
    /\ uncal_is_int = FALSE
    /\ n_peaks = 0
    /\ i_peak = 0
    /\ fp_locals = [bins |-> Unbound]
    /\ fp_out = <<>>
    /\ fp_alone = <<>>
    /\ fp_last = [inp |-> [mode |-> 0, wwidth |-> 0, n_bins |-> 0], oc |-> NoOutcome]
    /\ fp_pc = "idle"

\* the pass of the loop for peak i_peak
FPPeak ==
    /\ fp_pc = "loop"
    /\ i_peak < n_peaks
    /\ \E inp \in PeakInputs, oc \in Outcomes :
          LET r == FPPass(fp_locals, inp, oc, method, uncal_is_int)
              a == FPPass([bins |-> Unbound], inp, oc, method, uncal_is_int)
          IN  /\ fp_last' = [inp |-> inp, oc |-> oc]
              /\ fp_alone' = Append(fp_alone, IF a.raised THEN [raised |-> TRUE]
                                              ELSE [raised |-> FALSE, entry |-> a.entry])
              /\ fp_locals' = r.locals
              /\ IF r.raised
                 THEN /\ fp_pc' = "raised"
                      /\ UNCHANGED <<fp_out, i_peak>>
                 ELSE /\ fp_out' = [fp_out EXCEPT ![i_peak + 1] = r.entry]
                      /\ i_peak' = i_peak + 1
                      /\ UNCHANGED fp_pc
    /\ UNCHANGED <<method, uncal_is_int, n_peaks>>

\* the loop is over: the output arrays are returned
FPReturn ==
    /\ fp_pc = "loop"
    /\ i_peak = n_peaks
    /\ fp_pc' = "returned"
    /\ UNCHANGED <<method, uncal_is_int, n_peaks, i_peak, fp_locals, fp_out, fp_alone,
                   fp_last>>

\* the other functions' variables stay as they are
FPRest == UNCHANGED <<exVars, pmVars, gpVars, sfVars, ecVars, vzVars, fsVars, elVars, svVars>>

FPNext ==
    \/ FPPeak /\ FPRest
    \/ FPReturn /\ FPRest

(***************************************************************************)
(* hpge_E_calibration(E_uncal, peaks_keV, guess_keV, deg, ..., range_keV,  *)
(* funcs, gof_funcs, method, ...)                                          *)
(*                                                                         *)
(* The function is a pipeline of calls to the histogram builder and to the *)
(* other functions of the module.  ec_calls is the set of those already    *)
(* made, ec_results the set of keys stored in the results dict, ec_valid   *)
(* the validity flags handed back by hpge_fit_E_peaks, and ec_ret what the *)
(* call hands back: a returned tuple or a raised exception.                *)
(***************************************************************************)
MaxCalPeaks == 3

ECGuesses == {-1, 0, 1}

ECDegs == {-1, 0, 1, 2}

ECInputs ==
    [guess_keV : ECGuesses, deg : ECDegs, gof_funcs : {None, "list"},
     range_keV : {None, "scalar"}, method : Methods]

ECNoRet == [kind |-> "none"]

ECReturn(tuple) == [kind |-> "return", value |-> tuple]

ECRaise(exc, line) == [kind |-> "raise", exc |-> exc, line |-> line]

\* the keys stored after hpge_fit_E_peaks has returned
ECPeakKeys == {"pk_pars", "pk_errors", "pk_covs", "pk_binws", "pk_ranges",
               "pk_pvals", "pk_validities", "pk_funcs"}

ECInit ==
    /\ ec_in \in ECInputs
    /\ ec_pc = "start"
    /\ ec_calls = {}
    /\ ec_results = {}
    /\ ec_valid = <<>>
    /\ ec_ret = ECNoRet

ECIdle ==
    /\ ec_in = [guess_keV |-> 1, deg |-> 0, gof_funcs |-> None,
                range_keV |-> None, method |-> "unbinned"]
    /\ ec_pc = "idle"
    /\ ec_calls = {}
    /\ ec_results = {}
    /\ ec_valid = <<>>
    /\ ec_ret = ECNoRet

\* the sanity test on the scale guess alone
ECInvalidGuessOnly(g, d) == g <= 0

\* the sanity test on the scale guess and the degree
ECInvalid(g, d) == g <= 0 \/ d < 0

\* results = {} and the sanity checks
ECSanity ==
    /\ ec_pc = "start"
    /\ ec_results' = {}
    /\ IF ECInvalid(ec_in.guess_keV, ec_in.deg)
       THEN /\ ec_ret' = ECReturn(<<None, None, {}>>)
            /\ ec_pc' = "done"
       ELSE /\ ec_pc' = "search"
            /\ UNCHANGED ec_ret
    /\ UNCHANGED <<ec_in, ec_calls, ec_valid>>

\* the rough histogram, the peak search, the finer histogram and the peak
\* getter; any of them may raise, and the peak getter hands back at least one
\* peak when it returns (np.polyfit refuses an empty list)
ECSearch ==
    /\ ec_pc = "search"
    /\ \/ \E at \in {[made |-> {"get_hist"}, line |-> 1257],
                      [made |-> {"get_hist", "hpge_find_E_peaks"}, line |-> 1260],
                      [made |-> {"get_hist", "hpge_find_E_peaks"}, line |-> 1273],
                      [made |-> {"get_hist", "hpge_find_E_peaks", "hpge_get_E_peaks"},
                       line |-> 1286]} :
             /\ ec_calls' = ec_calls \cup at.made
             /\ ec_ret' = ECRaise("Exception", at.line)
             /\ ec_pc' = "raised"
             /\ UNCHANGED <<ec_results, ec_valid>>
       \/ \E n \in 1..MaxCalPeaks :
             /\ ec_calls' = ec_calls \cup {"get_hist", "hpge_find_E_peaks", "hpge_get_E_peaks"}
             /\ ec_results' = ec_results \cup {"got_peaks_locs", "got_peaks_keV"}
             /\ ec_valid' = [k \in 1..n |-> FALSE]
             /\ ec_pc' = "drop"
             /\ UNCHANGED ec_ret
    /\ UNCHANGED ec_in

\* the peaks not gotten and the peaks without a range or a function are
\* dropped: gof_funcs = None cannot be indexed, and with range_keV = None no
\* peak is left and the four-way unpacking fails
ECDrop ==
    /\ ec_pc = "drop"
    /\ IF ec_in.gof_funcs = None
       THEN /\ ec_ret' = ECRaise("TypeError", 1301)
            /\ ec_pc' = "raised"
       ELSE IF ec_in.range_keV = None
       THEN /\ ec_ret' = ECRaise("ValueError", 1311)
            /\ ec_pc' = "raised"
       ELSE /\ ec_pc' = "fit"
            /\ UNCHANGED ec_ret
    /\ UNCHANGED <<ec_in, ec_calls, ec_results, ec_valid>>

\* the validity flags hpge_fit_E_peaks can hand back for n peaks: with the
\* unbinned method every staged fit fails inside the try and no peak is valid
ECValidities(m, n) ==
    IF m = "unbinned" THEN {[k \in 1..n |-> FALSE]} ELSE [1..n -> BOOLEAN]

\* the fit ranges and the call of hpge_fit_E_peaks, which raises when the
\* first peak fails before its histogram is built
ECFitPeaks ==
    /\ ec_pc = "fit"
    /\ ec_calls' = ec_calls \cup {"hpge_fit_E_peaks"}
    /\ \/ /\ ec_ret' = ECRaise("UnboundLocalError", 1363)
          /\ ec_pc' = "raised"
          /\ UNCHANGED <<ec_results, ec_valid>>
       \/ \E v \in ECValidities(ec_in.method, Len(ec_valid)) :
             /\ ec_valid' = v
             /\ ec_results' = ec_results \cup ECPeakKeys
             /\ ec_pc' = "survive"
             /\ UNCHANGED ec_ret
    /\ UNCHANGED ec_in

\* sum(fitidx): the number of peaks whose fit is valid
ECSurvivors(v) == Cardinality({k \in 1..Len(v) : v[k]})

\* the failed fits are dropped and the centroids collected: with no peak
\* left, mus, mu_vars = zip(*[]) has nothing to unpack
ECCentroids ==
    /\ ec_pc = "survive"
    /\ ec_results' = ec_results \cup {"fitted_keV"}
    /\ IF ECSurvivors(ec_valid) = 0
       THEN /\ ec_ret' = ECRaise("ValueError", 1418)
            /\ ec_pc' = "raised"
       ELSE /\ ec_pc' = "scale"
            /\ UNCHANGED ec_ret
    /\ UNCHANGED <<ec_in, ec_calls, ec_valid>>

\* the try around hpge_fit_E_scale: a ValueError is turned into a return of
\* four values, any other exception leaves the function
ECFitScale ==
    /\ ec_pc = "scale"
    /\ ec_calls' = ec_calls \cup {"hpge_fit_E_scale"}
    /\ \E out \in {"ok", "ValueError", "Exception"} :
          CASE out = "ok" ->
                 /\ ec_results' = ec_results \cup {"pk_cal_pars", "pk_cal_errs", "pk_cal_cov"}
                 /\ ec_pc' = "invert"
                 /\ UNCHANGED ec_ret
            [] out = "ValueError" ->
                 /\ ec_ret' = ECReturn(<<None, None, None, ec_results>>)
                 /\ ec_pc' = "done"
                 /\ UNCHANGED ec_results
            [] out = "Exception" ->
                 /\ ec_ret' = ECRaise("Exception", 1423)
                 /\ ec_pc' = "raised"
                 /\ UNCHANGED ec_results
    /\ UNCHANGED <<ec_in, ec_valid>>

\* the inverse fit, the widths in keV and the successful return
ECInvert ==
    /\ ec_pc = "invert"
    /\ ec_calls' = ec_calls \cup {"hpge_fit_E_cal_func"}
    /\ \/ /\ ec_ret' = ECRaise("Exception", 1432)
          /\ ec_pc' = "raised"
          /\ UNCHANGED ec_results
       \/ /\ ec_results' = ec_results \cup {"pk_fwhms"}
          /\ ec_ret' = ECReturn(<<"pars", "cov", ec_results \cup {"pk_fwhms"}>>)
          /\ ec_pc' = "done"
    /\ UNCHANGED <<ec_in, ec_valid>>

ECRest == UNCHANGED <<exVars, pmVars, gpVars, sfVars, fpVars, vzVars, fsVars, elVars, svVars>>

ECNext ==
    \/ ECSanity /\ ECRest
    \/ ECSearch /\ ECRest
    \/ ECDrop /\ ECRest
    \/ ECFitPeaks /\ ECRest
    \/ ECCentroids /\ ECRest
    \/ ECFitScale /\ ECRest
    \/ ECInvert /\ ECRest

(***************************************************************************)
(* The head of hpge_find_E_peaks and of hpge_get_E_peaks: the clean-up of  *)
(* var and the noise-normalised signal hist / sqrt(var).                   *)
(*                                                                         *)
(* vz_in holds the arguments as they were when the call was made; vz_hist, *)
(* vz_bins and vz_var are the caller's arrays, which the function reaches  *)
(* through its parameters (numpy arrays are passed by reference).  An      *)
(* entry of var is the rational n/d; an array of integer dtype keeps only  *)
(* the integer part of what is stored into it.  vz_signal keeps, for each  *)
(* bin, the two operands of the division.                                  *)
(***************************************************************************)
MaxBins == 2

MaxVar == 2

VZFuncs == {"hpge_find_E_peaks", "hpge_get_E_peaks"}

VZDtypes == {"int64", "float64"}

\* var_zero: 0.5, 1 (the default) and 1.5
VarZeros == {[n |-> 1, d |-> 2], [n |-> 1, d |-> 1], [n |-> 3, d |-> 2]}

VZInt(v) == [n |-> v, d |-> 1]

\* the value an array of the given dtype holds after value has been stored
VZStore(value, dtype) ==
    IF dtype = "int64" THEN VZInt(value.n \div value.d) ELSE value

VZInit ==
    /\ \E n \in 1..MaxBins :
         \E h \in [1..n -> 0..1], v \in [1..n -> 0..MaxVar],
            f \in VZFuncs, t \in VZDtypes, z \in VarZeros :
            vz_in = [func |-> f, dtype |-> t, var_zero |-> z, hist |-> h,
                     bins |-> [k \in 1..(n + 1) |-> k - 1],
                     var |-> [k \in 1..n |-> VZInt(v[k])]]
    /\ vz_hist = vz_in.hist
    /\ vz_bins = vz_in.bins
    /\ vz_var = vz_in.var
    /\ vz_signal = <<>>
    /\ vz_pc = "start"

VZIdle ==
    /\ vz_in = [func |-> "hpge_find_E_peaks", dtype |-> "float64",
                var_zero |-> VZInt(1), hist |-> <<>>, bins |-> <<>>, var |-> <<>>]
    /\ vz_hist = <<>>
    /\ vz_bins = <<>>
    /\ vz_var = <<>>
    /\ vz_signal = <<>>
    /\ vz_pc = "idle"

\* var == 0, element by element
VZIsZero(v) == v.n = 0

\* var[np.where(var == 0)] = var_zero
VZReplace(var, var_zero, dtype) ==
    [k \in 1..Len(var) |->
        IF VZIsZero(var[k]) THEN VZStore(var_zero, dtype) ELSE var[k]]

\* clean up var if necessary
VZClean ==
    /\ vz_pc = "start"
    /\ vz_var' = IF \E k \in 1..Len(vz_var) : VZIsZero(vz_var[k])
                 THEN VZReplace(vz_var, vz_in.var_zero, vz_in.dtype)
                 ELSE vz_var
    /\ vz_pc' = "clean"
    /\ UNCHANGED <<vz_in, vz_hist, vz_bins, vz_signal>>

\* hist / np.sqrt(var), handed to get_i_local_maxima
VZSignal ==
    /\ vz_pc = "clean"
    /\ vz_signal' = [k \in 1..Len(vz_hist) |-> [num |-> vz_hist[k], var |-> vz_var[k]]]
    /\ vz_pc' = "signal"
    /\ UNCHANGED <<vz_in, vz_hist, vz_bins, vz_var>>

\* the rest of the function reads hist, bins and var and writes none of them
VZReturn ==
    /\ vz_pc = "signal"
    /\ vz_pc' = "done"
    /\ UNCHANGED <<vz_in, vz_hist, vz_bins, vz_var, vz_signal>>

VZRest == UNCHANGED <<exVars, pmVars, gpVars, sfVars, fpVars, ecVars, fsVars, elVars, svVars>>

VZNext ==
    \/ VZClean /\ VZRest
    \/ VZSignal /\ VZRest
    \/ VZReturn /\ VZRest

(***************************************************************************)
(* hpge_fit_E_scale(mus, mu_vars, Es_keV, deg) and                         *)
(* hpge_fit_E_cal_func(mus, mu_vars, Es_keV, E_scale_pars, deg), run one   *)
(* after the other on centroids mus = p(Es_keV) of a known polynomial p.   *)
(*                                                                         *)
(* Numbers are exact rationals [n, d], reduced, with d > 0.  A polynomial  *)
(* is the sequence of its coefficients, highest degree first.  The fits    *)
(* are weighted least squares, solved through their normal equations; the *)
(* Minuit pass that follows np.polyfit minimises the same weighted sum of  *)
(* squares from np.polyfit's solution and hands that solution back.        *)
(***************************************************************************)
MaxKeV == 4

RECURSIVE GCD(_, _)
GCD(a, b) == IF b = 0 THEN a ELSE GCD(b, a % b)

LCM(a, b) == (a \div GCD(a, b)) * b

Rat(n, d) ==
    LET g == GCD(Abs(n), Abs(d))
        s == IF d < 0 THEN -1 ELSE 1
    IN  [n |-> s * (n \div g), d |-> s * (d \div g)]

RatInt(v) == [n |-> v, d |-> 1]

RatAdd(p, q) == Rat(p.n * q.d + q.n * p.d, p.d * q.d)

RatMul(p, q) == Rat(p.n * q.n, p.d * q.d)

RatInv(p) == Rat(p.d, p.n)

RECURSIVE Pow(_, _)
Pow(b, e) == IF e = 0 THEN 1 ELSE b * Pow(b, e - 1)

\* pgf.poly(x, pars) for rational coefficients and an integer x
RECURSIVE PolyValRat(_, _)
PolyValRat(x, c) ==
    IF c = <<>> THEN RatInt(0)
    ELSE RatAdd(c[Len(c)],
                RatMul(RatInt(x), PolyValRat(x, SubSeq(c, 1, Len(c) - 1))))

\* rational weights brought to integers with the same ratios
RECURSIVE FSCommonDenom(_)
FSCommonDenom(w) == IF w = <<>> THEN 1 ELSE LCM(w[1].d, FSCommonDenom(Tail(w)))

FSIntWeights(w) ==
    LET L == FSCommonDenom(w)
    IN  [k \in 1..Len(w) |-> w[k].n * (L \div w[k].d)]

\* sum of W * x^px * y^py over the points
FSSum(W, x, y, px, py) ==
    SumSeq([k \in 1..Len(x) |-> W[k] * Pow(x[k], px) * Pow(y[k], py)])

Det3(a, b, c, d, e, f, g, h, k) ==
    a * (e * k - f * h) - b * (d * k - f * g) + c * (d * h - e * g)

\* pgu.fit_simple_scaling(x, y, var): sum(y*x/var) / sum(x*x/var), W = 1/var
FSSimpleScaling(x, y, W) == Rat(FSSum(W, x, y, 1, 1), FSSum(W, x, y, 2, 0))

\* np.polyfit(x, y, deg, w) for deg 1 and 2, with W = w^2: the solution of
\* the normal equations of sum W * (y - poly(x))^2
FSPolyFit(x, y, W, d) ==
    LET S0 == FSSum(W, x, y, 0, 0)
        S1 == FSSum(W, x, y, 1, 0)
        S2 == FSSum(W, x, y, 2, 0)
        S3 == FSSum(W, x, y, 3, 0)
        S4 == FSSum(W, x, y, 4, 0)
        T0 == FSSum(W, x, y, 0, 1)
        T1 == FSSum(W, x, y, 1, 1)
        T2 == FSSum(W, x, y, 2, 1)
    IN  IF d = 1
        THEN LET D == S0 * S2 - S1 * S1
             IN  <<Rat(S0 * T1 - S1 * T0, D), Rat(S2 * T0 - S1 * T1, D)>>
        ELSE LET D == Det3(S4, S3, S2, S3, S2, S1, S2, S1, S0)
             IN  <<Rat(Det3(T2, S3, S2, T1, S2, S1, T0, S1, S0), D),
                   Rat(Det3(S4, T2, S2, S3, T1, S1, S2, T0, S0), D),
                   Rat(Det3(S4, S3, T2, S3, S2, T1, S2, S1, T0), D)>>

\* Minuit(c, *poly_pars) with simplex, migrad and hesse: m.values
FSMinuit(poly_pars) == poly_pars

\* pars of hpge_fit_E_scale: the best fit of poly(Es_keV) = mus
FSFitEScale(mus, mu_vars, Es_keV, d) ==
    LET W == FSIntWeights([k \in 1..Len(mus) |-> RatInv(mu_vars[k])])
    IN  IF d = 0
        THEN <<FSSimpleScaling(Es_keV, mus, W), RatInt(0)>>
        ELSE FSMinuit(FSPolyFit(Es_keV, mus, W, d))

\* dmudEs: the sum over n of E_scale_pars[n] * mus ** (len(E_scale_pars) - 2 - n)
RECURSIVE FSDmudE(_, _, _)
FSDmudE(E_scale_pars, mu, n) ==
    IF n >= Len(E_scale_pars) - 1 THEN RatInt(0)
    ELSE RatAdd(RatMul(E_scale_pars[n + 1],
                       RatInt(Pow(mu, Len(E_scale_pars) - 2 - n))),
                FSDmudE(E_scale_pars, mu, n + 1))

\* the inverse fit made with its two data arrays exchanged
FSFitECalFuncSwapped(mus, mu_vars, Es_keV, E_scale_pars, d) ==
    IF d = 0
    THEN LET E_vars == [k \in 1..Len(mus) |->
                          RatMul(mu_vars[k],
                                 RatInv(RatMul(E_scale_pars[1], E_scale_pars[1])))]
             W == FSIntWeights([k \in 1..Len(mus) |-> RatInv(E_vars[k])])
         IN  <<FSSimpleScaling(Es_keV, mus, W), RatInt(0)>>
    ELSE LET E_weights == [k \in 1..Len(mus) |->
                             RatMul(FSDmudE(E_scale_pars, mus[k], 0), mu_vars[k])]
             W == FSIntWeights([k \in 1..Len(mus) |->
                                   RatInv(RatMul(E_weights[k], E_weights[k]))])
         IN  FSMinuit(FSPolyFit(Es_keV, mus, W, d))

\* pars of hpge_fit_E_cal_func: the best fit of E = poly(mus)
FSFitECalFunc(mus, mu_vars, Es_keV, E_scale_pars, d) ==
    IF d = 0
    THEN LET E_vars == [k \in 1..Len(mus) |->
                          RatMul(mu_vars[k],
                                 RatInv(RatMul(E_scale_pars[1], E_scale_pars[1])))]
             W == FSIntWeights([k \in 1..Len(mus) |-> RatInv(E_vars[k])])
         IN  <<FSSimpleScaling(mus, Es_keV, W), RatInt(0)>>
    ELSE LET E_weights == [k \in 1..Len(mus) |->
                             RatMul(FSDmudE(E_scale_pars, mus[k], 0), mu_vars[k])]
             W == FSIntWeights([k \in 1..Len(mus) |->
                                   RatInv(RatMul(E_weights[k], E_weights[k]))])
         IN  FSMinuit(FSPolyFit(mus, Es_keV, W, d))

\* the known polynomials: scale * E for deg 0, a*E + b for deg 1, E^2 for deg 2
FSPolys(d) ==
    IF d = 0 THEN {<<s, 0>> : s \in {-1, 1, 2, 3}}
    ELSE IF d = 1 THEN {<<a, b>> : a \in {-1, 1, 2}, b \in {-1, 0, 2}}
    ELSE {<<1, 0, 0>>}

\* the variances of the centroids: 1 or 2 for each; for deg 2 the variances
\* 1 / (p[0]*mu + p[1]), which give the inverse fit equal weights (with
\* other variances the sums of the degree-2 normal equations leave the
\* integer range)
FSVars(d, p, m) ==
    IF d <= 1 THEN [1..Len(m) -> {RatInt(1), RatInt(2)}]
    ELSE {[k \in 1..Len(m) |-> Rat(1, p[1] * m[k] + p[2])]}

FSNoPars == <<>>

FSInit ==
    /\ \E d \in 0..2 :
         \E E \in AscSeqs(1..MaxKeV, d + 1, MaxKeV), p \in FSPolys(d) :
            LET m == [k \in 1..Len(E) |-> PolyVal(E[k], p)]
            IN  \E v \in FSVars(d, p, m) :
                   fs_in = [deg |-> d, Es_keV |-> E, p |-> p, mus |-> m, mu_vars |-> v]
    /\ fs_scale = FSNoPars
    /\ fs_cal = FSNoPars
    /\ fs_pc = "start"

FSIdle ==
    /\ fs_in = [deg |-> 0, Es_keV |-> <<>>, p |-> <<>>, mus |-> <<>>, mu_vars |-> <<>>]
    /\ fs_scale = FSNoPars
    /\ fs_cal = FSNoPars
    /\ fs_pc = "idle"

\* pars, errs, cov = hpge_fit_E_scale(mus, mu_vars, Es_keV, deg)
FSScale ==
    /\ fs_pc = "start"
    /\ fs_scale' = FSFitEScale(fs_in.mus, fs_in.mu_vars, fs_in.Es_keV, fs_in.deg)
    /\ fs_pc' = "scaled"
    /\ UNCHANGED <<fs_in, fs_cal>>

\* pars, errs, cov = hpge_fit_E_cal_func(mus, mu_vars, Es_keV, pars, deg)
FSCalFunc ==
    /\ fs_pc = "scaled"
    /\ fs_cal' = FSFitECalFunc(fs_in.mus, fs_in.mu_vars, fs_in.Es_keV, fs_scale,
                               fs_in.deg)
    /\ fs_pc' = "done"
    /\ UNCHANGED <<fs_in, fs_scale>>

FSRest == UNCHANGED <<exVars, pmVars, gpVars, sfVars, fpVars, ecVars, vzVars, elVars, svVars>>

FSNext ==
    \/ FSScale /\ FSRest
    \/ FSCalFunc /\ FSRest

(***************************************************************************)
(* The per-peak lists of hpge_E_calibration: range_keV, funcs and          *)
(* gof_funcs from the caller, got_peaks_locs and got_peaks_keV from        *)
(* hpge_get_E_peaks, and what is made of them up to the centroids.         *)
(*                                                                         *)
(* The reference energies are 1..n keV in increasing order.  What the      *)
(* caller supplies for the peak at E keV carries the label E, so that an   *)
(* entry tells which peak it was meant for; 0 stands for a value that is   *)
(* false in a test (None, 0), and ELSame for the one value a caller who    *)
(* passes no list supplies for all peaks.  The raw position of the peak at *)
(* E keV is ELLoc(E).  el_fits is the list of what hpge_fit_E_peaks fits   *)
(* each mode guess with, el_mus the list of the peaks whose centroid goes  *)
(* into the calibration curve fit.                                         *)
(***************************************************************************)
ELSame == 9

ELLoc(E) == 10 * E

\* the forms range_keV and funcs can be passed in for n peaks
ELPerPeak(n) ==
    {[kind |-> "one", x |-> x] : x \in {0, ELSame}}
        \cup {[kind |-> "list", v |-> l] :
                 l \in {s \in [1..n -> 0..n] : \A k \in 1..n : s[k] \in {0, k}}}

\* the forms gof_funcs can be passed in for n peaks
ELGofs(n) ==
    {[kind |-> "None"], [kind |-> "function"], [kind |-> "list", v |-> [k \in 1..n |-> k]]}

ELNoRet == [kind |-> "none"]

ELRaise(exc, line) == [kind |-> "raise", exc |-> exc, line |-> line]

ELInit ==
    /\ \E n \in 1..MaxCalPeaks :
          /\ el_peaks_keV = [k \in 1..n |-> k]
          /\ el_in \in [range_keV : ELPerPeak(n), funcs : ELPerPeak(n), gof_funcs : ELGofs(n)]
    /\ el_range_keV = <<>>
    /\ el_funcs = <<>>
    /\ el_gof_funcs = <<>>
    /\ el_got_locs = <<>>
    /\ el_got_keV = <<>>
    /\ el_fits = <<>>
    /\ el_valid_pks = <<>>
    /\ el_mus = <<>>
    /\ el_ret = ELNoRet
    /\ el_pc = "start"

ELIdle ==
    /\ el_peaks_keV = <<>>
    /\ el_in = [range_keV |-> [kind |-> "one", x |-> 0], funcs |-> [kind |-> "one", x |-> 0],
                gof_funcs |-> [kind |-> "None"]]
    /\ el_range_keV = <<>>
    /\ el_funcs = <<>>
    /\ el_gof_funcs = <<>>
    /\ el_got_locs = <<>>
    /\ el_got_keV = <<>>
    /\ el_fits = <<>>
    /\ el_valid_pks = <<>>
    /\ el_mus = <<>>
    /\ el_ret = ELNoRet
    /\ el_pc = "idle"

\* [x for peak in peaks_keV] when x is not a list, x itself when it is
ELAsList(a, n) == IF a.kind = "list" THEN a.v ELSE [k \in 1..n |-> a.x]

\* range_keV and funcs are made lists, one entry for each reference energy
ELBroadcast ==
    /\ el_pc = "start"
    /\ el_range_keV' = ELAsList(el_in.range_keV, Len(el_peaks_keV))
    /\ el_funcs' = ELAsList(el_in.funcs, Len(el_peaks_keV))
    /\ el_pc' = "search"
    /\ UNCHANGED <<el_peaks_keV, el_in, el_gof_funcs, el_got_locs, el_got_keV, el_fits,
                   el_valid_pks, el_mus, el_ret>>

\* hpge_get_E_peaks hands back some of the reference energies, in increasing
\* order, with their raw positions; it hands back one peak at least
ELGetPeaks ==
    /\ el_pc = "search"
    /\ \E got \in AscSeqs(Range(el_peaks_keV), 1, Len(el_peaks_keV)) :
          /\ el_got_keV' = got
          /\ el_got_locs' = [k \in 1..Len(got) |-> ELLoc(got[k])]
    /\ el_pc' = "drop"
    /\ UNCHANGED <<el_peaks_keV, el_in, el_range_keV, el_funcs, el_gof_funcs, el_fits,
                   el_valid_pks, el_mus, el_ret>>

\* [a[i] for i in idx]
ELPick(a, idx) == [k \in 1..Len(idx) |-> a[idx[k]]]

\* idx, the positions (1-based here) of the reference energies that were gotten
ELIdx(refs, got) ==
    GPFilter([k \in 1..Len(refs) |-> k], [k \in 1..Len(refs) |-> refs[k] \in Range(got)], 1)

\* the peaks that were not gotten are dropped from range_keV, funcs and
\* gof_funcs; a gof_funcs that is no list cannot be indexed
ELDropNotGot ==
    /\ el_pc = "drop"
    /\ LET idx == ELIdx(el_peaks_keV, el_got_keV)
       IN  /\ el_range_keV' = ELPick(el_range_keV, idx)
           /\ el_funcs' = ELPick(el_funcs, idx)
           /\ IF el_in.gof_funcs.kind = "list"
              THEN /\ el_gof_funcs' = ELPick(el_in.gof_funcs.v, idx)
                   /\ el_pc' = "dropfit"
                   /\ UNCHANGED el_ret
              ELSE /\ el_ret' = ELRaise("TypeError", 1301)
                   /\ el_pc' = "raised"
                   /\ UNCHANGED el_gof_funcs
    /\ UNCHANGED <<el_peaks_keV, el_in, el_got_locs, el_got_keV, el_fits, el_valid_pks, el_mus>>

\* the positions of the peaks that have both a range and a function
ELToFit(rng, fns) == [k \in 1..Len(rng) |-> rng[k] # 0 /\ fns[k] # 0]

\* the lists line 1311 assigns: gof_funcs is not one of them
ELFitLists(locs, keV, rng, fns, gofs) ==
    LET keep == ELToFit(rng, fns)
    IN  [locs |-> GPFilter(locs, keep, 1), keV |-> GPFilter(keV, keep, 1),
         rng |-> GPFilter(rng, keep, 1), fns |-> GPFilter(fns, keep, 1),
         gofs |-> gofs]

\* the peaks without a range or without a function are dropped; with no peak
\* left the four-way unpacking of line 1311 fails
ELDropUnfit ==
    /\ el_pc = "dropfit"
    /\ LET new == ELFitLists(el_got_locs, el_got_keV, el_range_keV, el_funcs, el_gof_funcs)
       IN  IF new.locs = <<>>
           THEN /\ el_ret' = ELRaise("ValueError", 1311)
                /\ el_pc' = "raised"
                /\ UNCHANGED <<el_got_locs, el_got_keV, el_range_keV, el_funcs, el_gof_funcs>>
           ELSE /\ el_got_locs' = new.locs
                /\ el_got_keV' = new.keV
                /\ el_range_keV' = new.rng
                /\ el_funcs' = new.fns
                /\ el_gof_funcs' = new.gofs
                /\ el_pc' = "fit"
                /\ UNCHANGED el_ret
    /\ UNCHANGED <<el_peaks_keV, el_in, el_fits, el_valid_pks, el_mus>>

\* hpge_fit_E_peaks: peak i_peak is fitted at mode_guesses[i_peak] with
\* wwidths[i_peak], funcs[i_peak] and gof_funcs[i_peak], and gets a validity
\* flag; the call may raise instead
ELFitPeaks ==
    /\ el_pc = "fit"
    /\ \/ /\ el_ret' = ELRaise("Exception", 1363)
          /\ el_pc' = "raised"
          /\ UNCHANGED <<el_fits, el_valid_pks>>
       \/ /\ el_fits' = [k \in 1..Len(el_got_locs) |->
                           [keV |-> el_got_keV[k], loc |-> el_got_locs[k],
                            rng |-> el_range_keV[k], func |-> el_funcs[k],
                            gof |-> el_gof_funcs[k]]]
          /\ el_valid_pks' \in [1..Len(el_got_locs) -> BOOLEAN]
          /\ el_pc' = "survive"
          /\ UNCHANGED el_ret
    /\ UNCHANGED <<el_peaks_keV, el_in, el_range_keV, el_funcs, el_gof_funcs, el_got_locs,
                   el_got_keV, el_mus>>

\* the failed fits are dropped and the centroids of the others collected for
\* the calibration curve; with no peak left line 1418 has nothing to unpack
ELCentroids ==
    /\ el_pc = "survive"
    /\ LET fitted == GPFilter(el_got_keV, el_valid_pks, 1)
       IN  IF fitted = <<>>
           THEN /\ el_ret' = ELRaise("ValueError", 1418)
                /\ el_pc' = "raised"
                /\ UNCHANGED el_mus
           ELSE /\ el_mus' = fitted
                /\ el_pc' = "scale"
                /\ UNCHANGED el_ret
    /\ UNCHANGED <<el_peaks_keV, el_in, el_range_keV, el_funcs, el_gof_funcs, el_got_locs,
                   el_got_keV, el_fits, el_valid_pks>>

ELRest == UNCHANGED <<exVars, pmVars, gpVars, sfVars, fpVars, ecVars, vzVars, fsVars, svVars>>

ELNext ==
    \/ ELBroadcast /\ ELRest
    \/ ELGetPeaks /\ ELRest
    \/ ELDropNotGot /\ ELRest
    \/ ELDropUnfit /\ ELRest
    \/ ELFitPeaks /\ ELRest
    \/ ELCentroids /\ ELRest

(***************************************************************************)
(* The validity flag of one optimisation attempt of                        *)
(* unbinned_staged_energy_fit: valid1 (lines 628-632), valid2 (lines       *)
(* 660-664) and valid3 (lines 715-719) are computed from the Minuit object *)
(* of the attempt and the mask of get_hpge_E_fixed.                        *)
(*                                                                         *)
(* sv_m is what the optimizer reports: valid, and for each parameter of    *)
(* the model whether its error is NaN, zero or another number.  sv_attempt *)
(* tells which of the three flags sv_flag is.                              *)
(***************************************************************************)
SVFuncs == {"extended_gauss_step_pdf", "extended_radford_pdf"}

SVErrors == {"ok", "nan", "zero"}

\* (fixed, mask) for func; fixed holds 0-based indices
get_hpge_E_fixed_none(func) ==
    IF func = "extended_gauss_step_pdf"
    THEN [fixed |-> {5, 6, 7}, mask |-> [k \in 1..8 |-> TRUE]]
    ELSE [fixed |-> {7, 8, 9}, mask |-> [k \in 1..10 |-> TRUE]]

get_hpge_E_fixed(func) ==
    IF func = "extended_gauss_step_pdf"
    THEN [fixed |-> {5, 6, 7},
          mask |-> <<TRUE, TRUE, TRUE, TRUE, TRUE, FALSE, FALSE, FALSE>>]
    ELSE [fixed |-> {7, 8, 9},
          mask |-> <<TRUE, TRUE, TRUE, TRUE, TRUE, TRUE, TRUE, FALSE, FALSE, FALSE>>]

\* m.valid & (~np.isnan(np.array(m.errors)[mask]).any())
\*         & (~(np.array(m.errors)[mask] == 0).all())
SVValidity(m, mask) ==
    LET errs == GPFilter(m.errors, mask, 1)
    IN  /\ m.valid
        /\ ~(\E k \in 1..Len(errs) : errs[k] = "nan")
        /\ ~(\A k \in 1..Len(errs) : errs[k] = "zero")

SVInit ==
    /\ sv_func \in SVFuncs
    /\ sv_m \in [valid : BOOLEAN,
                 errors : [1..Len(get_hpge_E_fixed(sv_func).mask) -> SVErrors]]
    /\ sv_attempt = "none"
    /\ sv_flag = FALSE
    /\ sv_pc = "start"

SVIdle ==
    /\ sv_func = "extended_gauss_step_pdf"
    /\ sv_m = [valid |-> FALSE, errors |-> <<>>]
    /\ sv_attempt = "none"
    /\ sv_flag = FALSE
    /\ sv_pc = "idle"

\* the flag of the attempt without simplex
SVFirst ==
    /\ sv_pc = "start"
    /\ sv_flag' = SVValidity(sv_m, get_hpge_E_fixed(sv_func).mask)
    /\ sv_attempt' = "first"
    /\ sv_pc' = "done"
    /\ UNCHANGED <<sv_func, sv_m>>

\* the flag of the attempt with simplex
SVSecond ==
    /\ sv_pc = "start"
    /\ sv_flag' = SVValidity(sv_m, get_hpge_E_fixed(sv_func).mask)
    /\ sv_attempt' = "second"
    /\ sv_pc' = "done"
    /\ UNCHANGED <<sv_func, sv_m>>

\* the flag of the attempt with the extra simplex
SVRetry ==
    /\ sv_pc = "start"
    /\ sv_flag' = SVValidity(sv_m, get_hpge_E_fixed(sv_func).mask)
    /\ sv_attempt' = "retry"
    /\ sv_pc' = "done"
    /\ UNCHANGED <<sv_func, sv_m>>

SVRest == UNCHANGED <<exVars, pmVars, gpVars, sfVars, fpVars, ecVars, vzVars, fsVars, elVars>>

SVNext ==
    \/ SVFirst /\ SVRest
    \/ SVSecond /\ SVRest
    \/ SVRetry /\ SVRest

(***************************************************************************)
(* Specifications: one per function, the other functions' variables idle.  *)
(***************************************************************************)
ExAlone ==
    ExInit /\ PMIdle /\ GPIdle /\ SFIdle /\ FPIdle /\ ECIdle /\ VZIdle /\ FSIdle /\ ELIdle /\ SVIdle

PMAlone ==
    PMInit /\ ExIdle /\ GPIdle /\ SFIdle /\ FPIdle /\ ECIdle /\ VZIdle /\ FSIdle /\ ELIdle /\ SVIdle

PMImageAlone ==
    PMImageInit /\ ExIdle /\ GPIdle /\ SFIdle /\ FPIdle /\ ECIdle /\ VZIdle /\ FSIdle /\ ELIdle /\ SVIdle

GPAlone ==
    GPInit /\ ExIdle /\ PMIdle /\ SFIdle /\ FPIdle /\ ECIdle /\ VZIdle /\ FSIdle /\ ELIdle /\ SVIdle

SFAlone ==
    SFInit /\ ExIdle /\ PMIdle /\ GPIdle /\ FPIdle /\ ECIdle /\ VZIdle /\ FSIdle /\ ELIdle /\ SVIdle

FPAlone ==
    FPInit /\ ExIdle /\ PMIdle /\ GPIdle /\ SFIdle /\ ECIdle /\ VZIdle /\ FSIdle /\ ELIdle /\ SVIdle

ECAlone ==
    ECInit /\ ExIdle /\ PMIdle /\ GPIdle /\ SFIdle /\ FPIdle /\ VZIdle /\ FSIdle /\ ELIdle /\ SVIdle

VZAlone ==
    VZInit /\ ExIdle /\ PMIdle /\ GPIdle /\ SFIdle /\ FPIdle /\ ECIdle /\ FSIdle /\ ELIdle /\ SVIdle

FSAlone ==
    FSInit /\ ExIdle /\ PMIdle /\ GPIdle /\ SFIdle /\ FPIdle /\ ECIdle /\ VZIdle /\ ELIdle /\ SVIdle

ELAlone ==
    ELInit /\ ExIdle /\ PMIdle /\ GPIdle /\ SFIdle /\ FPIdle /\ ECIdle /\ VZIdle /\ FSIdle /\ SVIdle

SVAlone ==
    /\ SVInit /\ ExIdle /\ PMIdle /\ GPIdle /\ SFIdle /\ FPIdle /\ ECIdle /\ VZIdle /\ FSIdle
    /\ ELIdle

SpecExtrema == ExAlone /\ [][ExNext]_vars

SpecPolyMatch == PMAlone /\ [][PMNext]_vars

SpecPolyImage == PMImageAlone /\ [][PMNext]_vars

\* poly_match is one call that runs on until it returns or raises: weak
\* fairness of its steps, WF_vars(PMNext), written out.  The steps are
\* enabled exactly while PMRunning holds, and each of them changes ixtup,
\* iytup or pm_pc, which no other step does
PMRunning == pm_pc \in {"start", "loop"}

SpecPolyMatchRuns ==
    /\ PMAlone
    /\ [][PMNext]_vars
    /\ ([]<>(~PMRunning) \/ []<><<TRUE>>_<<ixtup, iytup, pm_pc>>)

SpecGetPeaks == GPAlone /\ [][GPNext]_vars

SpecStagedFit == SFAlone /\ [][SFNext]_vars

\* the fitter is one call that runs on until it returns or raises: weak
\* fairness of its steps
SpecStagedFitRuns ==
    /\ SFAlone
    /\ [][SFNext]_vars
    /\ WF_vars(SFNext)

SpecFitPeaks == FPAlone /\ [][FPNext]_vars

SpecCalibration == ECAlone /\ [][ECNext]_vars

SpecVarZero == VZAlone /\ [][VZNext]_vars

SpecFitScale == FSAlone /\ [][FSNext]_vars

SpecCalLists == ELAlone /\ [][ELNext]_vars

SpecValidity == SVAlone /\ [][SVNext]_vars

Init ==
    \/ ExAlone \/ PMAlone \/ GPAlone \/ SFAlone \/ FPAlone \/ ECAlone \/ VZAlone \/ FSAlone
    \/ ELAlone \/ SVAlone

Next ==
    \/ ExNext \/ PMNext \/ GPNext \/ SFNext \/ FPNext \/ ECNext \/ VZNext \/ FSNext
    \/ ELNext \/ SVNext

Spec == Init /\ [][Next]_vars

(***************************************************************************)
(* C10: on a flat floor with a single hump of height H > delta, followed   *)
(* by the floor, get_i_local_extrema returns exactly one maximum, at the   *)
(* first index of the hump's peak value, and no minima.                    *)
(***************************************************************************)
\* the floor value: the value the sequence ends with
ExFloor == data[Len(data)]

ExHumpIdx == {k \in 1..Len(data) : data[k] # ExFloor}

ExPeakVal == CHOOSE v \in Range(data) : \A w \in Range(data) : w <= v

\* first (0-based) index of the peak value
ExPeakIdx == (CHOOSE k \in 1..Len(data) :
                 /\ data[k] = ExPeakVal
                 /\ \A j \in 1..(k - 1) : data[j] # ExPeakVal) - 1

\* floor, then one unimodal run of values above the floor, then floor again
ExSingleHump ==
    /\ Len(data) >= 2
    /\ ExHumpIdx # {}
    /\ \A k \in ExHumpIdx : data[k] > ExFloor
    /\ \A j, k \in ExHumpIdx : \A m \in j..k : m \in ExHumpIdx
    /\ \A j, k \in ExHumpIdx :
          (j < k /\ k + 1 \in ExHumpIdx) => ~(data[j] > data[j + 1] /\ data[k] < data[k + 1])
    /\ ExPeakVal - ExFloor > delta

C10_SingleHump ==
    (ex_pc = "done" /\ delta > 0 /\ ExSingleHump)
        => (imaxes = <<ExPeakIdx>> /\ imins = <<>>)

C10_Witness ==
    /\ ex_pc = "done"
    /\ delta > 0
    /\ ExSingleHump
    /\ imaxes = <<ExPeakIdx>>
    /\ ExPeakIdx > 0
    /\ \E k \in 1..Len(data) : k - 1 > ExPeakIdx /\ data[k] = ExPeakVal

(***************************************************************************)
(* C1: for an ascending xx of length >= max(2, d+2) and a polynomial f of  *)
(* degree d, poly_match(xx, f(xx), deg=d) returns f's coefficients and     *)
(* matches every point: both index tuples list every index 0..len(xx)-1.   *)
(***************************************************************************)
\* the fitted line p is the polynomial with coefficients c
PMSameCoefs(p, c) == p.D > 0 /\ p.a = c[1] * p.D /\ p.b = c[2] * p.D

C1_RecoversPolynomial ==
    (pm_pc \in {"done", "error", "IndexError", "TypeError"})
        => /\ pm_pc = "done"
           /\ best_ixtup = IdxRange(Len(xx))
           /\ best_iytup = IdxRange(Len(xx))
           /\ n_close = Len(xx)
           /\ \A c \in Coefs(deg) : yy = PolyImage(c, xx) => PMSameCoefs(pars, c)

C1_Witness ==
    /\ pm_pc = "done"
    /\ deg = 1
    /\ Len(xx) = 4
    /\ yy = PolyImage(<<-2, 1>>, xx)
    /\ PMSameCoefs(pars, <<-2, 1>>)
    /\ best_ixtup = IdxRange(4)

(***************************************************************************)
(* C3: when the search of poly_match ends without a perfect match, the     *)
(* alignment returned has at least as many matches as every candidate      *)
(* evaluated during the whole search, over all window lengths.             *)
(***************************************************************************)
C3_BestOverWholeSearch ==
    (pm_pc = "done" /\ n_close # Len(iytup)) => n_close >= pm_seen

(***************************************************************************)
(* C2: when hpge_get_E_peaks returns, the matched energies are pairwise    *)
(* distinct: no reference energy is claimed by two surviving detections.   *)
(***************************************************************************)
C2_InjectiveAssignment ==
    gp_pc = "done" =>
        /\ Len(got_peak_locations) = Len(matched_energies)
        /\ \A j, k \in 1..Len(matched_energies) :
              j # k => matched_energies[j] # matched_energies[k]

\* a conflict was resolved: fewer detections survive than were kept, and more
\* than one survives
C2_Witness ==
    /\ gp_pc = "done"
    /\ Len(matched_energies) >= 2
    /\ Len(matched_energies) + 2 <=
          Cardinality({k \in 1..Len(detected) :
              GPMinDist(peaks_keV, PolyVal(detected[k], cal_pars)) < Etol_keV})

(***************************************************************************)
(* C4: arbitration between the two attempts of the staged fitter: if       *)
(* exactly one attempt is valid it is selected; if both are valid, the one *)
(* whose goodness-of-fit statistic is smaller by more than 5% is selected; *)
(* otherwise the one with the strictly smaller summed relative             *)
(* uncertainty.  The result is the values, errors and covariance of the    *)
(* selected attempt itself, and it is a valid attempt whenever at least    *)
(* one attempt is valid.                                                   *)
(***************************************************************************)
SFOuter == sf_stack[1]

\* the outermost call is over and both of its attempts were made
SFBothRan ==
    /\ sf_stack # <<>>
    /\ sf_result.kind # "none"
    /\ SFOuter.m.errors # "none"
    /\ SFOuter.m2.errors # "none"

\* the call returned the fit of attempt obj ("m" or "m2"), which is valid
SFSelected(obj, m) ==
    /\ sf_result.kind = "return"
    /\ sf_result.fit.values = <<obj, "values">>
    /\ sf_result.fit.errors = <<obj, "errors">>
    /\ sf_result.fit.covariance = <<obj, "covariance">>
    /\ sf_result.fit.cs = m.cs
    /\ sf_result.fit.valid

SFCsBetter(m, m2) == m.cs * 105 < m2.cs * 100

C4_Arbitration ==
    (SFBothRan /\ ~(SFTailed(SFOuter.func) /\ SFOuter.allow_tail_drop)) =>
        LET m == SFOuter.m
            m2 == SFOuter.m2
            v1 == SFValid(m)
            v2 == SFValid(m2)
        IN  /\ (v1 /\ ~v2) => SFSelected("m", m)
            /\ (v2 /\ ~v1) => SFSelected("m2", m2)
            /\ (v1 /\ v2 /\ SFCsBetter(m, m2)) => SFSelected("m", m)
            /\ (v1 /\ v2 /\ SFCsBetter(m2, m)) => SFSelected("m2", m2)
            /\ (v1 /\ v2 /\ ~SFCsBetter(m, m2) /\ ~SFCsBetter(m2, m)
                   /\ SFFracLess(m.frac, m2.frac)) => SFSelected("m", m)
            /\ (v1 /\ v2 /\ ~SFCsBetter(m, m2) /\ ~SFCsBetter(m2, m)
                   /\ SFFracLess(m2.frac, m.frac)) => SFSelected("m2", m2)

(***************************************************************************)
(* C5: when both attempts are valid, neither goodness-of-fit statistic is  *)
(* smaller by more than 5%, and the summed relative uncertainties are      *)
(* equal or not comparable, the staged fitter raises an error and returns  *)
(* no fit result.                                                          *)
(***************************************************************************)
SFTied ==
    /\ SFBothRan
    /\ SFValid(SFOuter.m) /\ SFValid(SFOuter.m2)
    /\ ~SFCsBetter(SFOuter.m, SFOuter.m2) /\ ~SFCsBetter(SFOuter.m2, SFOuter.m)
    /\ ~SFFracLess(SFOuter.m.frac, SFOuter.m2.frac)
    /\ ~SFFracLess(SFOuter.m2.frac, SFOuter.m.frac)

SFDropCond(fit, fit_no_tail) == fit.htail_lt_err \/ fit_no_tail.cs <= fit.cs

\* the exception, if any, does not come from an external service
SFNoExternalFailure == sf_result.kind = "raise" => sf_result.exc # "Exception"

C6_TailDrop ==
    (sf_stack # <<>> /\ sf_result.kind # "none" /\ SFNoExternalFailure
        /\ SFOuter.x0 # None
        /\ SFTailed(SFOuter.func) /\ SFOuter.allow_tail_drop) =>
        /\ sf_result.kind = "return"
        /\ SFOuter.fit_no_tail.kind = "fit"
        /\ \E t \in {SFFit1(SFOuter.m), SFFit1(SFOuter.m2)} :
              \/ SFDropCond(t, SFOuter.fit_no_tail) /\ sf_result.fit = SFOuter.fit_no_tail
              \/ ~SFDropCond(t, SFOuter.fit_no_tail) /\ sf_result.fit = t

(***************************************************************************)
(* C7: in hpge_fit_E_peaks an exception raised while one peak is processed *)
(* becomes an invalid entry with NaN parameters for that peak only: the    *)
(* call never raises, also on the first peak, and every remaining peak is  *)
(* still processed.                                                        *)
(***************************************************************************)
C7_NeverRaises ==
    /\ fp_pc # "raised"
    /\ fp_pc = "returned" => i_peak = n_peaks

(***************************************************************************)
(* C8: hpge_fit_E_peaks sets a peak's validity flag to false whenever the  *)
(* covariance sum is non-finite (+inf, -inf or NaN) or zero, or a free     *)
(* parameter's relative uncertainty is below the floor or NaN, or the      *)
(* total event count is off by more than 10%, or the p-value is below      *)
(* allowed_p_val or NaN; with both fit methods.                            *)
(***************************************************************************)
FPFlagged(oc) ==
    \/ oc.covsum \in {"+inf", "-inf", "nan", "zero"}
    \/ oc.relerr \in {"low", "nan"}
    \/ oc.events = "off"
    \/ oc.pval \in {"low", "nan"}

C9_PeaksIndependent ==
    /\ \A k \in 1..Len(fp_alone) :
          IF fp_alone[k].raised
          THEN fp_pc = "raised" /\ k = i_peak + 1
          ELSE k <= i_peak /\ fp_out[k] = fp_alone[k].entry
    /\ Len(fp_out) = n_peaks

(***************************************************************************)
(* C11: for every data sequence and every delta > 0 the maxima and minima  *)
(* lists of get_i_local_extrema strictly alternate in time order,          *)
(* maxima[0] < minima[0] < maxima[1] < minima[1] < ..., so each list is    *)
(* strictly increasing and there are as many maxima as minima, or one      *)
(* more.  It holds of the lists at every point of the loop, hence of the   *)
(* lists returned.                                                         *)
(***************************************************************************)
ExAlternate ==
    /\ Len(imaxes) - Len(imins) \in {0, 1}
    /\ \A k \in 1..Len(imins) : imaxes[k] < imins[k]
    /\ \A k \in 1..Len(imaxes) : k > 1 => imins[k - 1] < imaxes[k]

C11_Alternation == (ex_pc \in {"loop", "done"} /\ delta > 0) => ExAlternate

C11_Witness ==
    /\ ex_pc = "done"
    /\ delta > 0
    /\ Len(imaxes) >= 2
    /\ Len(imins) >= 2

(***************************************************************************)
(* C12: in the conflict resolution of hpge_get_E_peaks, for every          *)
(* reference energy claimed by several kept detections, the one detection  *)
(* that survives has the smallest prediction error                         *)
(* |poly(raw) - reference| among all the detections that claimed that      *)
(* reference, whatever their number.  Stated of a call that returns: every *)
(* claimed reference is returned once, with a raw position that claimed it *)
(* and whose error no other claimant undercuts.                            *)
(***************************************************************************)
\* the detections kept by the tolerance test
GPKept ==
    {d \in Range(detected) :
        GPMinDist(peaks_keV, PolyVal(d, cal_pars)) < Etol_keV}

\* the reference energy a detection claims
GPClaim(d) == peaks_keV[GPArgMin(peaks_keV, PolyVal(d, cal_pars))]

GPClaimants(r) == {d \in GPKept : GPClaim(d) = r}

GPErr(d, r) == Abs(PolyVal(d, cal_pars) - r)

C12_BestClaimantSurvives ==
    gp_pc = "done" =>
        /\ Len(got_peak_locations) = Len(matched_energies)
        /\ \A d \in GPKept : \E k \in 1..Len(matched_energies) :
               matched_energies[k] = GPClaim(d)
        /\ \A k \in 1..Len(matched_energies) :
               LET s == got_peak_locations[k]
                   r == matched_energies[k]
               IN  /\ s \in GPClaimants(r)
                   /\ \A d \in GPClaimants(r) : GPErr(s, r) <= GPErr(d, r)

\* a call that returned after three detections had claimed one reference
\* energy, the survivor being neither the first nor the last of them
C12_Witness ==
    /\ gp_pc = "done"
    /\ \E k \in 1..Len(matched_energies) :
           LET cl == GPClaimants(matched_energies[k])
               s == got_peak_locations[k]
           IN  /\ Cardinality(cl) >= 3
               /\ \E d \in cl : d < s
               /\ \E d \in cl : d > s

(***************************************************************************)
(* C13: hpge_E_calibration called with guess_keV <= 0 or deg < 0 fails     *)
(* immediately: it returns a null polynomial, a null covariance and an     *)
(* empty diagnostics bundle, and has made no call to the histogram         *)
(* builder, the peak search or a fit.                                      *)
(***************************************************************************)
C13_InvalidInputFailsFast ==
    (ec_pc \notin {"idle", "start"} /\ (ec_in.guess_keV <= 0 \/ ec_in.deg < 0)) =>
        /\ ec_pc = "done"
        /\ ec_ret.kind = "return"
        /\ ec_ret.value = <<None, None, {}>>
        /\ ec_calls = {}

\* a call with a good scale guess and a negative degree has returned
C13_Witness ==
    /\ ec_pc = "done"
    /\ ec_in.guess_keV > 0
    /\ ec_in.deg < 0
    /\ ec_ret.kind = "return"
    /\ ec_calls = {}

(***************************************************************************)
(* C14: when too few peaks survive the per-peak fits for the requested     *)
(* degree (fewer than deg + 1, the case of no valid fit included),         *)
(* hpge_E_calibration does not raise: it returns a null polynomial with    *)
(* the diagnostics collected so far, as a (polynomial, covariance,         *)
(* diagnostics) triple like a successful return.                           *)
(***************************************************************************)
C14_NullResultWhenTooFew ==
    (/\ ec_pc \in {"done", "raised"}
     /\ "pk_validities" \in ec_results
     /\ ECSurvivors(ec_valid) < ec_in.deg + 1) =>
        /\ ec_ret.kind = "return"
        /\ Len(ec_ret.value) = 3
        /\ ec_ret.value[1] = None
        /\ ec_ret.value[3] = ec_results

(***************************************************************************)
(* C15: poly_match fails with an error result, evaluating no alignment,    *)
(* whenever no window of at least max(2, deg + 2) elements exists, that is *)
(* whenever min(len(xx), len(yy)) < max(2, deg + 2) or deg < -1; and it    *)
(* never fits a window shorter than max(2, deg + 2).  pm_pc = "loop" is    *)
(* the point where the candidate (ixtup, iytup) is about to be fitted.     *)
(***************************************************************************)
PMMinWindow == IF deg + 2 > 2 THEN deg + 2 ELSE 2

PMShortest == IF Len(xx) < Len(yy) THEN Len(xx) ELSE Len(yy)

C15_InsufficientDataFails ==
    /\ (deg < -1 \/ PMShortest < PMMinWindow) =>
           (pm_pc \in {"idle", "start", "error"} /\ pars = NoPars /\ pm_seen = 0)
    /\ pm_pc = "loop" => Len(ixtup) >= PMMinWindow

(***************************************************************************)
(* C19: every candidate alignment poly_match evaluates is a pair of        *)
(* contiguous index windows of equal length, one in xx and one in yy, so   *)
(* that the window length and the two starting indices determine it.       *)
(* As amended: every candidate is a pair of strictly increasing index      *)
(* tuples of equal length, within the bounds of xx and of yy, which need   *)
(* not be contiguous.                                                      *)
(***************************************************************************)
PMContiguous(tup) == \A k \in 1..(Len(tup) - 1) : tup[k + 1] = tup[k] + 1

PMIncreasing(tup, len) ==
    /\ \A k \in 1..(Len(tup) - 1) : tup[k] < tup[k + 1]
    /\ \A k \in 1..Len(tup) : tup[k] >= 0 /\ tup[k] < len

C19_ContiguousWindows ==
    pm_pc = "loop" =>
        /\ Len(ixtup) = Len(iytup)
        /\ PMContiguous(ixtup)
        /\ PMContiguous(iytup)

C19_OrderPreservingTuples ==
    pm_pc = "loop" =>
        /\ Len(ixtup) = Len(iytup)
        /\ PMIncreasing(ixtup, Len(xx))
        /\ PMIncreasing(iytup, Len(yy))

\* a candidate about to be fitted whose indices into xx skip one
C19_Witness ==
    /\ pm_pc = "loop"
    /\ Len(ixtup) >= 2
    /\ ~PMContiguous(ixtup)
    /\ PMIncreasing(ixtup, Len(xx))

(***************************************************************************)
(* C20: if some candidate of window length L >= 1 matches on all L of its  *)
(* points, poly_match stops at that length: no candidate of a smaller      *)
(* length is evaluated, and the alignment returned has length L and        *)
(* matches on all L points.                                                *)
(***************************************************************************)
C20_StopsAtFullMatch ==
    pm_full > 0 =>
        /\ pm_pc \in {"loop", "done"}
        /\ Len(iytup) = pm_full
        /\ pm_pc = "done" =>
              /\ n_close = pm_full
              /\ Len(best_ixtup) = pm_full
              /\ Len(best_iytup) = pm_full
              /\ Cardinality(PMMatches(pars, Take(xx, best_ixtup), Take(yy, best_iytup),
                                       rtol, atol)) = pm_full

\* the search went through a shorter window length before it met a full match,
\* and the full match was not the last candidate of its length
C20_Witness ==
    /\ pm_pc = "done"
    /\ pm_full >= 2
    /\ pm_full < PMShortest
    /\ best_ixtup # IdxRange(pm_full)
    /\ pm_seen = pm_full

(***************************************************************************)
(* C16: hpge_find_E_peaks and hpge_get_E_peaks leave the caller's          *)
(* histogram unchanged: after the call the counts, the bin edges and the   *)
(* variance array hold the values they held before it, also when the       *)
(* variance contains zeros.                                                *)
(***************************************************************************)
C16_HistogramUnchanged ==
    vz_pc = "done" =>
        /\ vz_hist = vz_in.hist
        /\ vz_bins = vz_in.bins
        /\ vz_var = vz_in.var

(***************************************************************************)
(* C17: for any histogram and any var_zero > 0, every zero entry of the    *)
(* variance is replaced by var_zero before counts / sqrt(variance) is      *)
(* computed, so that no division by a zero variance occurs.                *)
(***************************************************************************)
C17_NoZeroVariance ==
    vz_pc \in {"signal", "done"} =>
        \A k \in 1..Len(vz_signal) :
            /\ vz_signal[k].var.n # 0
            /\ vz_in.var[k].n = 0 =>
                  vz_signal[k].var.n * vz_in.var_zero.d
                      = vz_in.var_zero.n * vz_signal[k].var.d

(***************************************************************************)
(* C18: round trip of the calibration curve.  For noiseless centroids      *)
(* mus = p(E) of a known polynomial p of degree deg, hpge_fit_E_scale      *)
(* recovers the coefficients of p, and hpge_fit_E_cal_func called with     *)
(* them returns a polynomial q with q(p(E)) = E at every reference energy. *)
(* As amended: the first half as it stands; the second half for deg 0 and  *)
(* deg 1, and for a higher degree when there are exactly deg + 1 reference *)
(* energies.                                                               *)
(***************************************************************************)
FSRecovered ==
    fs_scale = [k \in 1..Len(fs_in.p) |-> RatInt(fs_in.p[k])]

FSInverts ==
    \A k \in 1..Len(fs_in.Es_keV) :
        PolyValRat(fs_in.mus[k], fs_cal) = RatInt(fs_in.Es_keV[k])

PMCandFit(c) == PMFit(Take(xx, c[1]), Take(yy, c[2]), deg)

PMCandMatches(c) ==
    {k \in 1..Len(c[1]) :
        PMIsClose(PMCandFit(c), xx[c[1][k] + 1], yy[c[2][k] + 1], rtol, atol)}

PMCandCount(c) == Cardinality(PMCandMatches(c))

RECURSIVE PMSumOver(_, _, _)
PMSumOver(c, p, S) ==
    IF S = {} THEN 0
    ELSE LET k == CHOOSE m \in S : TRUE
             r == PMResid(p, xx[c[1][k] + 1], yy[c[2][k] + 1])
         IN  r * r + PMSumOver(c, p, S \ {k})

\* the squared residuals of c summed over its matched points, as a rational
PMCandSSR(c) ==
    [n |-> PMSumOver(c, PMCandFit(c), PMCandMatches(c)),
     d |-> IF PMCandMatches(c) = {} THEN 1 ELSE PMCandFit(c).D * PMCandFit(c).D]

\* candidate c ranks strictly above candidate e
PMOutranks(c, e) ==
    \/ PMCandCount(c) > PMCandCount(e)
    \/ PMCandCount(c) = PMCandCount(e) /\ GofLess(PMCandSSR(c), PMCandSSR(e))

\* position k of pm_hist holds the first candidate that no other outranks
PMIsFirstBest(k) ==
    /\ \A j \in 1..Len(pm_hist) : ~PMOutranks(pm_hist[j], pm_hist[k])
    /\ \A j \in 1..(k - 1) : PMOutranks(pm_hist[k], pm_hist[j])

C21_KeepsFirstBestInWindow ==
    (pm_pc \in {"loop", "done", "IndexError"} /\ pm_hist # <<>>) =>
        \E k \in 1..Len(pm_hist) :
            /\ PMIsFirstBest(k)
            /\ best_ixtup = pm_hist[k][1]
            /\ best_iytup = pm_hist[k][2]
            /\ n_close = PMCandCount(pm_hist[k])
            /\ gof.n * PMCandSSR(pm_hist[k]).d = PMCandSSR(pm_hist[k]).n * gof.d

\* a window length at which three candidates reach the highest match count:
\* the second has a lower residual sum than the first and is kept, and the
\* third equals the second in both and is not
C21_Witness ==
    /\ pm_pc = "done"
    /\ \E j, k, m \in 1..Len(pm_hist) :
          /\ j < k /\ k < m
          /\ n_close >= 1
          /\ PMCandCount(pm_hist[j]) = n_close
          /\ PMCandCount(pm_hist[k]) = n_close
          /\ PMCandCount(pm_hist[m]) = n_close
          /\ GofLess(PMCandSSR(pm_hist[k]), PMCandSSR(pm_hist[j]))
          /\ ~GofLess(PMCandSSR(pm_hist[k]), PMCandSSR(pm_hist[m]))
          /\ ~GofLess(PMCandSSR(pm_hist[m]), PMCandSSR(pm_hist[k]))
          /\ best_ixtup = pm_hist[k][1]
          /\ best_iytup = pm_hist[k][2]

(***************************************************************************)
(* C22: the search loop of poly_match terminates for all xx and yy, of any *)
(* lengths (len(xx) < len(yy) and an empty xx included), and any           *)
(* deg >= -1.  Every pass of the loop either moves ixtup to a later tuple  *)
(* of the same length with iytup as it was, or moves iytup to a later      *)
(* tuple of the same length with ixtup back at its first tuple, or makes   *)
(* the window one shorter, or leaves the loop; no pair of index tuples is  *)
(* taken twice at one window length; and the loop is left in the end.      *)
(* Leaving the loop by an exception counts as leaving it.                  *)
(***************************************************************************)
\* tuple a comes before tuple b of the same length in the order of lines 1566-1576
PMComesBefore(a, b) ==
    /\ Len(a) = Len(b)
    /\ \E k \in 1..Len(a) :
          /\ a[k] < b[k]
          /\ \A m \in (k + 1)..Len(a) : a[m] = b[m]

C22_Progress ==
    pm_pc = "loop" =>
        \/ iytup' = iytup /\ PMComesBefore(ixtup, ixtup')
        \/ PMComesBefore(iytup, iytup') /\ ixtup' = IdxRange(Len(iytup))
        \/ /\ Len(iytup') = Len(iytup) - 1
           /\ Len(ixtup') = Len(ixtup) - 1
        \/ pm_pc' # "loop"

C22_NoRevisit ==
    /\ \A j, k \in 1..Len(pm_hist) : j # k => pm_hist[j] # pm_hist[k]
    /\ pm_pc = "loop" => \A k \in 1..Len(pm_hist) : pm_hist[k] # <<ixtup, iytup>>

C22_Exited == pm_pc \in {"error", "done", "TypeError", "IndexError"}

C22_SearchTerminates ==
    /\ []C22_NoRevisit
    /\ [][C22_Progress]_vars
    /\ <>C22_Exited

\* a search over fewer xx than yy that moved iytup over all its tuples, none
\* of them matching on all points, and came to its end
C22_Witness ==
    /\ pm_pc = "done"
    /\ deg >= -1
    /\ Len(xx) < Len(yy)
    /\ Len(pm_hist) >= 3
    /\ n_close < Len(iytup)

(***************************************************************************)
(* C23: in get_i_local_extrema, while a maximum is searched for, sample i  *)
(* appends a maximum if and only if data[i] is strictly below the largest  *)
(* value seen since the search began, minus delta: a plateau, or a fall of *)
(* exactly delta, appends nothing.  The index appended is the first        *)
(* occurrence of that largest value among the samples seen since the       *)
(* search began.  The same holds for minima with the order reversed.       *)
(***************************************************************************)
\* the samples seen since the search for the next extremum began, sample i included
ExSeen == ex_from..i

ExLargest == CHOOSE v \in {Data(k) : k \in ExSeen} : \A k \in ExSeen : Data(k) <= v

ExSmallest == CHOOSE v \in {Data(k) : k \in ExSeen} : \A k \in ExSeen : Data(k) >= v

\* the first sample of ExSeen that has the value v
ExFirstAt(v) == CHOOSE k \in ExSeen : Data(k) = v /\ \A m \in ExSeen : Data(m) = v => k <= m

C23_StepCommits ==
    (ex_pc = "loop" /\ i < Len(data)) =>
        IF find_max
        THEN /\ imins' = imins
             /\ IF Data(i) < ExLargest - delta
                THEN imaxes' = Append(imaxes, ExFirstAt(ExLargest))
                ELSE imaxes' = imaxes
        ELSE /\ imaxes' = imaxes
             /\ IF Data(i) > ExSmallest + delta
                THEN imins' = Append(imins, ExFirstAt(ExSmallest))
                ELSE imins' = imins

GPPairOK(k) ==
    LET e == PolyVal(got_peak_locations[k], cal_pars)
        m == matched_energies[k]
    IN  /\ Abs(e - m) < Etol_keV
        /\ m \in Range(peaks_keV)
        /\ \A r \in Range(peaks_keV) : Abs(e - m) <= Abs(e - r)

C24_PairsWithinTolerance ==
    gp_pc = "done" =>
        /\ Len(got_peak_locations) = Len(matched_energies)
        /\ \A k \in 1..Len(matched_energies) : GPPairOK(k)

\* a return of two pairs or more, after one detection was left out for being
\* too far from every reference energy and another lost its reference energy
\* to a nearer detection
C24_Witness ==
    /\ gp_pc = "done"
    /\ Len(matched_energies) >= 2
    /\ \E k \in 1..Len(detected) :
          \A r \in Range(peaks_keV) : Abs(PolyVal(detected[k], cal_pars) - r) >= Etol_keV
    /\ \E k \in 1..Len(detected) :
          /\ detected[k] \notin Range(got_peak_locations)
          /\ \E r \in Range(peaks_keV) : Abs(PolyVal(detected[k], cal_pars) - r) < Etol_keV

(***************************************************************************)
(* C28: the conflict-resolution loop of hpge_get_E_peaks ends normally for *)
(* every list of kept detections, whether or not the detections matched to *)
(* one reference energy are next to each other: it never reads past the    *)
(* end of matched_energies, every pass takes exactly one detection out,    *)
(* and the raw positions, the predicted energies and the matched energies  *)
(* stay equally long.                                                      *)
(***************************************************************************)
C28_ListsAligned ==
    /\ Len(got_peak_locations) = Len(matched_energies)
    /\ Len(got_peak_energies) = Len(matched_energies)

C28_LoopEndsNormally ==
    /\ gp_pc # "IndexError"
    /\ gp_pc \in {"while", "done", "TypeError"} => C28_ListsAligned

\* the passes that do complete take one detection out of each list
C28_PassRemovesOne ==
    [][(gp_pc = "while" /\ gp_pc' = "while") =>
          /\ Len(matched_energies') = Len(matched_energies) - 1
          /\ Len(got_peak_locations') = Len(got_peak_locations) - 1
          /\ Len(got_peak_energies') = Len(got_peak_energies) - 1]_vars

(***************************************************************************)
(* C29: the refined polynomial that hpge_get_E_peaks returns is fitted     *)
(* with a degree equal to the number of coefficients of the rough          *)
(* polynomial cal_pars, so it has one coefficient more than cal_pars: two  *)
(* rough coefficients give three refined ones.                             *)
(***************************************************************************)
C29_RefitOneCoefficientMore ==
    gp_pc = "done" =>
        /\ gp_pars.kind = "poly"
        /\ gp_pars.deg = Len(cal_pars)
        /\ gp_pars.len = Len(cal_pars) + 1

\* a return with a rough polynomial of two coefficients and a refined one of three
C29_Witness ==
    /\ gp_pc = "done"
    /\ Len(cal_pars) = 2
    /\ Len(got_peak_locations) >= 2
    /\ gp_pars.len = 3

(***************************************************************************)
(* C30: in hpge_E_calibration, after the peaks that were not re-located    *)
(* and the peaks without a window or a shape model have been dropped, the  *)
(* per-peak lists are aligned: whatever subset of the peaks was            *)
(* re-located, each peak that is fitted is fitted at its own raw position  *)
(* with the window, the shape model and the goodness-of-fit function the   *)
(* caller supplied for that peak's reference energy; and the centroids     *)
(* that go into the calibration curve fit are those of the peaks whose fit *)
(* is flagged valid, and no others.                                        *)
(***************************************************************************)
\* the position of the reference energy E in peaks_keV
ELPos(E) == CHOOSE k \in 1..Len(el_peaks_keV) : el_peaks_keV[k] = E

\* what the caller supplied for the peak at E keV
ELSuppliedRange(E) == ELAsList(el_in.range_keV, Len(el_peaks_keV))[ELPos(E)]

ELSuppliedFunc(E) == ELAsList(el_in.funcs, Len(el_peaks_keV))[ELPos(E)]

ELSuppliedGof(E) == el_in.gof_funcs.v[ELPos(E)]

\* window and shape model of every fit are the fitted peak's own
C30_WindowAndShapeAligned ==
    \A k \in 1..Len(el_fits) :
        /\ el_fits[k].loc = ELLoc(el_fits[k].keV)
        /\ el_fits[k].rng = ELSuppliedRange(el_fits[k].keV)
        /\ el_fits[k].func = ELSuppliedFunc(el_fits[k].keV)

\* the goodness-of-fit function of every fit is the fitted peak's own
C30_GofAligned ==
    \A k \in 1..Len(el_fits) : el_fits[k].gof = ELSuppliedGof(el_fits[k].keV)

\* the centroids are those of the valid fits
C30_ValidOnly ==
    el_pc = "scale" =>
        /\ \A k \in 1..Len(el_fits) : el_valid_pks[k] <=> el_fits[k].keV \in Range(el_mus)
        /\ Range(el_mus) \subseteq {el_fits[k].keV : k \in 1..Len(el_fits)}

C30_PerPeakListsAligned ==
    /\ C30_WindowAndShapeAligned
    /\ C30_GofAligned
    /\ C30_ValidOnly

\* what does hold: all of the claim but the goodness-of-fit functions
C30_AlignedButGof == C30_WindowAndShapeAligned /\ C30_ValidOnly

(***************************************************************************)
(* C25: an optimisation attempt of the staged fitter is flagged valid if   *)
(* and only if the optimizer reports convergence, no free parameter has a  *)
(* NaN error, and the errors of the free parameters are not all exactly    *)
(* zero.  The fixed parameters, which are the last three (the two bounds   *)
(* of the fit range and the components flag), have no influence on the     *)
(* flag.  The rule is the same for the first attempt, the second attempt   *)
(* and the retry.                                                          *)
(***************************************************************************)
\* the positions (1-based) of the free parameters of the model
SVFree == 1..(Len(sv_m.errors) - 3)

C25_ValidityRule ==
    (sv_pc = "done" /\ sv_attempt \in {"first", "second", "retry"}) =>
        (sv_flag <=>
            /\ sv_m.valid
            /\ \A k \in SVFree : sv_m.errors[k] # "nan"
            /\ \E k \in SVFree : sv_m.errors[k] # "zero")

\* an attempt flagged valid although a fixed parameter has a NaN error and
\* another a zero error, with a free parameter's error zero as well
C25_Witness ==
    /\ sv_pc = "done"
    /\ sv_attempt = "second"
    /\ sv_flag
    /\ sv_m.errors[Len(sv_m.errors)] = "nan"
    /\ sv_m.errors[Len(sv_m.errors) - 1] = "zero"
    /\ sv_m.errors[1] = "zero"

(***************************************************************************)
(* C26: the staged fitter runs the intensified derivative-free retry if    *)
(* and only if both regular attempts are invalid, and at most once in a    *)
(* fit; if the retry is invalid too the fit ends as a failure; and a       *)
(* result marked valid never comes from an invalid attempt.                *)
(***************************************************************************)
\* lines 702-709 have run: the one outcome of the call that follows them
SFRetried == sf_result = Raise("NameError", 710)

\* what the call returned is the fit of a valid attempt
SFFromValidAttempt ==
    \/ SFValid(SFOuter.m) /\ SFSelected("m", SFOuter.m)
    \/ SFValid(SFOuter.m2) /\ SFSelected("m2", SFOuter.m2)

C26_RetryIffBothInvalid ==
    SFBothRan =>
        /\ SFRetried <=> (~SFValid(SFOuter.m) /\ ~SFValid(SFOuter.m2))
        /\ (sf_result.kind = "return" /\ sf_result.fit.valid) => SFFromValidAttempt
        /\ (sf_result.kind = "return" /\ ~SFValid(SFOuter.m) /\ ~SFValid(SFOuter.m2)) =>
              ~sf_result.fit.valid

(***************************************************************************)
(* C27: in the staged fitter the tail-free fit is performed if and only if *)
(* the model is tailed and tail drop is allowed: a call for such a model   *)
(* comes to start the tail-free fit, and no other call starts one.  The    *)
(* tailed model's first optimisation attempt does not start before the     *)
(* tail-free fit is over; the tail-free fit starts no tail-free fit of its *)
(* own, so that the nesting depth is one at most and every run of the      *)
(* fitter ends, with a result returned or an exception raised; and the fit *)
(* of a tail-free model is never replaced by the result of another model.  *)
(***************************************************************************)
\* the call in progress is at line 595 and the test there holds
SFAtTailTest ==
    /\ SFRunning
    /\ SFTop.pc = "cost"
    /\ SFTailed(SFTop.func) /\ SFTop.allow_tail_drop

C27_Nesting ==
    /\ Len(sf_stack) <= 2
    /\ Len(sf_stack) = 2 =>
          /\ SFTailed(SFOuter.func) /\ SFOuter.allow_tail_drop
          /\ SFOuter.pc = "wait_no_tail"
          /\ SFOuter.m = NoMinuit /\ SFOuter.m2 = NoMinuit
          /\ ~SFTailed(SFTop.func)
    /\ \A k \in 1..Len(sf_stack) :
          sf_stack[k].pc \in {"attempt1", "attempt2", "select", "returned"} =>
              IF SFTailed(sf_stack[k].func) /\ sf_stack[k].allow_tail_drop
              THEN sf_stack[k].fit_no_tail.kind = "fit"
              ELSE sf_stack[k].fit_no_tail = NoFit
    /\ (sf_result.kind = "return" /\ ~SFTailed(SFOuter.func)) =>
          sf_result.fit \in {SFFit1(SFOuter.m), SFFit1(SFOuter.m2)}

\* a call is started by a step exactly when the test of line 595 holds, and
\* then by the outermost call
C27_StartsNested ==
    (Len(sf_stack') = Len(sf_stack) + 1) <=> (SFAtTailTest /\ Len(sf_stack) = 1)

C27_Ended == sf_result.kind # "none"

\* a call for a tailed model with tail drop allowed is over, and no external
\* service failed in it
SFDropCallOver ==
    /\ C27_Ended
    /\ SFTailed(SFOuter.func) /\ SFOuter.allow_tail_drop
    /\ ~(sf_result.kind = "raise" /\ sf_result.exc = "Exception")

\* the call got past line 595, which such a call does by starting the
\* tail-free fit
SFPastTailTest == sf_result.kind = "raise" => sf_result.line > 595

C27_TailFreeFitPerformed == SFDropCallOver => SFPastTailTest

\* what does hold: the nesting, the order and the end of every run
C27_NestedOnceAndEnds ==
    /\ []C27_Nesting
    /\ [][C27_StartsNested]_vars
    /\ <>C27_Ended

C27_NestedOnceThenEnds ==
    /\ []C27_Nesting
    /\ [][C27_StartsNested]_vars
    /\ <>C27_Ended
    /\ []C27_TailFreeFitPerformed

=============================================================================
